---------------------------- MODULE Spec2Model ----------------------------
(***************************************************************************)
(* HKE9: nine-card poker rounds.  The settlement engine of                 *)
(* src/server/score.js as operators, and the room state machine of         *)
(* src/server/server.js (the third, server-authoritative listing, lines    *)
(* 872-1788) as actions.                                                   *)
(***************************************************************************)
EXTENDS Integers, Sequences, FiniteSets, TLC

VARIABLES
    subs,       \* score.js: the `submissions` object handed to computeRoundResult,
                \* as the sequence of its entries in key (insertion) order
    override,   \* score.js: the dealerOverride of the last computeRoundResult call
    out,        \* score.js: what the last computeRoundResult call returned or threw
    room,       \* server.js: the room object of getRoom (NoRoom when not registered)
    conn,       \* server.js: each connection (ws.id): "new", "joined" to the room,
                \* or "closed" (its 'close' event has been handled)
    revealLog,  \* server.js: the 'reveal' broadcasts of resolveReveal to the room
                \* object, oldest first
    input,      \* the arguments of one call of a function of score.js or of the
                \* deal of server.js, or the request of one call of the save
                \* worker's fetch (src/unnamed/part_000)
    result      \* what that call returned; for the worker, how far the call has
                \* come, the GitHub requests it has made, and its response

vars == <<subs, override, out, room, conn, revealLog, input, result>>

(***************************************************************************)
(* Bounds of the model.                                                    *)
(***************************************************************************)
MaxPlayers == 3     \* ids 1..MaxPlayers submit to one computeRoundResult call
MaxConn == 3        \* connections (ws.id) 1..MaxConn ever opened to the room
MaxRound == 2       \* rounds dealt to one room object
MaxReveals == 2     \* 'reveal' broadcasts of one room object

(***************************************************************************)
(* Cards.  {r, s} with s in S,H,D,C and r in 2..14; the jokers are         *)
(* {r:16, s:'J', j:'BJ'} and {r:15, s:'J', j:'SJ'}: j is a function of r,   *)
(* so the model keeps r and s.                                             *)
(***************************************************************************)
SUITS == <<"S", "H", "D", "C">>

Card(r, s) == [r |-> r, s |-> s]

BJ == Card(16, "J")

SJ == Card(15, "J")

NoCard == Card(0, "-")    \* null / undefined in a section array

Std52 == {Card(r, SUITS[i]) : r \in 2..14, i \in 1..4}

makeDeck54 == Std52 \cup {BJ, SJ}

IsJoker(c) == c.s = "J"

SetOf(seq) == {seq[i] : i \in 1..Len(seq)}

Max2(a, b) == IF a >= b THEN a ELSE b

Min2(a, b) == IF a <= b THEN a ELSE b

Sign(n) == IF n > 0 THEN 1 ELSE IF n < 0 THEN -1 ELSE 0

At0(t, i) == IF i <= Len(t) THEN t[i] ELSE 0    \* t[i-1] ?? 0, t[i-1] || 0

(***************************************************************************)
(* score.js: hand evaluation.                                              *)
(***************************************************************************)
Ev(cat, t, name) == [cat |-> cat, t |-> t, name |-> name, usedJoker |-> FALSE]

compareEval(a, b) ==
    IF a.cat # b.cat THEN a.cat - b.cat
    ELSE LET len == Max2(Len(a.t), Len(b.t))
             diff == {i \in 1..len : At0(a.t, i) # At0(b.t, i)}
         IN  IF diff = {} THEN 0
             ELSE LET i == CHOOSE k \in diff : \A m \in diff : k <= m
                  IN  At0(a.t, i) - At0(b.t, i)

eval2NoJoker(cards) ==
    LET hi == Max2(cards[1].r, cards[2].r)
        lo == Min2(cards[1].r, cards[2].r)
    IN  IF hi = lo THEN Ev(1, <<hi>>, "pair") ELSE Ev(0, <<hi, lo>>, "high")

\* eval3NoJoker without the run 2-3-A
eval3NoJokerNoWheel(cards) ==
    LET r1 == cards[1].r
        r2 == cards[2].r
        r3 == cards[3].r
        hi == Max2(r1, Max2(r2, r3))
        lo == Min2(r1, Min2(r2, r3))
        md == r1 + r2 + r3 - hi - lo
        isFlush == \A i \in 1..3 : cards[i].s = cards[1].s
        isStraight == hi - md = 1 /\ md - lo = 1
    IN  IF isStraight /\ isFlush THEN Ev(5, <<hi>>, "straightFlush")
        ELSE IF hi = lo THEN Ev(4, <<hi>>, "trips")
        ELSE IF isStraight THEN Ev(3, <<hi>>, "straight")
        ELSE IF hi = md THEN Ev(1, <<hi, lo>>, "pair")
        ELSE IF md = lo THEN Ev(1, <<lo, hi>>, "pair")
        ELSE Ev(0, <<hi, md, lo>>, "high")

eval3NoJoker(cards) ==
    LET r1 == cards[1].r
        r2 == cards[2].r
        r3 == cards[3].r
        hi == Max2(r1, Max2(r2, r3))
        lo == Min2(r1, Min2(r2, r3))
        md == r1 + r2 + r3 - hi - lo
        isFlush == \A i \in 1..3 : cards[i].s = cards[1].s
        uniq == {r1, r2, r3}
        count(r) == Cardinality({i \in 1..3 : cards[i].r = r})
        run == hi - md = 1 /\ md - lo = 1
        wheel == lo = 2 /\ md = 3 /\ hi = 14
        isStraight == Cardinality(uniq) = 3 /\ (run \/ wheel)
        straightHigh == IF run THEN (IF hi = 14 THEN 15 ELSE hi) ELSE 14
    IN  IF isStraight /\ isFlush THEN Ev(5, <<straightHigh>>, "straightFlush")
        ELSE IF Cardinality(uniq) = 1 THEN Ev(4, <<hi>>, "trips")
        ELSE IF isStraight THEN Ev(3, <<straightHigh>>, "straight")
        ELSE IF Cardinality(uniq) = 2
             THEN LET pairRank == CHOOSE r \in uniq : count(r) = 2
                      kicker == CHOOSE r \in uniq : count(r) = 1
                  IN  Ev(1, <<pairRank, kicker>>, "pair")
        ELSE Ev(0, <<hi, md, lo>>, "high")

\* `best` of eval2/eval3: tryHand keeps the first candidate that compareEval puts
\* strictly above every earlier one, so `best` is the compareEval-maximum of the
\* candidates (equal candidates have equal cat, t and name).
\* `best` by the category alone: a candidate of the highest category
BestOfCategory(evals) ==
    LET e == CHOOSE x \in evals : \A y \in evals : x.cat >= y.cat
    IN  [e EXCEPT !.usedJoker = TRUE]

BestOf(evals) ==
    LET e == CHOOSE x \in evals : \A y \in evals : compareEval(x, y) >= 0
    IN  [e EXCEPT !.usedJoker = TRUE]

Base(cards) == SelectSeq(cards, LAMBDA c : c # NoCard /\ ~IsJoker(c))

Jokers(cards) == Cardinality({i \in 1..Len(cards) : IsJoker(cards[i])})

Full(base) == Std52 \ SetOf(base)

eval2(cards) ==
    IF Jokers(cards) = 0 THEN eval2NoJoker(cards)
    ELSE LET base == Base(cards)
             full == Full(base)
         IN  IF Jokers(cards) = 1
             THEN BestOf({eval2NoJoker(base \o <<x>>) : x \in full})
             ELSE BestOf({eval2NoJoker(base \o <<p[1], p[2]>>) :
                            p \in {q \in full \X full : q[1] # q[2]}})

eval3(cards) ==
    IF Jokers(cards) = 0 THEN eval3NoJoker(cards)
    ELSE LET base == Base(cards)
             full == Full(base)
         IN  IF Jokers(cards) = 1
             THEN BestOf({eval3NoJoker(base \o <<x>>) : x \in full})
             ELSE BestOf({eval3NoJoker(base \o <<p[1], p[2]>>) :
                            p \in {q \in full \X full : q[1] # q[2]}})

(***************************************************************************)
(* score.js: win-values, section scores, strength and foul.                *)
(***************************************************************************)
\* headWinPoints with a pair paid like any other head.
headWinPointsFlat(e2) == 1

headWinPoints(e2) ==
    IF e2.cat = 1 /\ At0(e2.t, 1) >= 2 /\ At0(e2.t, 1) <= 14 THEN At0(e2.t, 1) ELSE 1

midWinPoints(e3) == IF e3.cat = 5 THEN 10 ELSE IF e3.cat = 4 THEN 6 ELSE 1

tailWinPoints(e3) == IF e3.cat = 5 THEN 5 ELSE IF e3.cat = 4 THEN 3 ELSE 1

\* headSectionScore with an equal head going to the player.
headSectionScoreTie(playerE, dealerE) ==
    IF compareEval(playerE, dealerE) >= 0 THEN headWinPoints(playerE)
    ELSE -headWinPoints(dealerE)

headSectionScore(playerE, dealerE) ==
    LET cmp == Sign(compareEval(playerE, dealerE))
    IN  IF cmp = 0 THEN -headWinPoints(dealerE)
        ELSE IF cmp > 0 THEN headWinPoints(playerE)
        ELSE -headWinPoints(dealerE)

midSectionScore(playerE, dealerE) ==
    LET cmp == Sign(compareEval(playerE, dealerE))
    IN  IF cmp = 0 THEN -midWinPoints(dealerE)
        ELSE IF cmp > 0 THEN midWinPoints(playerE)
        ELSE -midWinPoints(dealerE)

tailSectionScore(playerE, dealerE) ==
    LET cmp == Sign(compareEval(playerE, dealerE))
    IN  IF cmp = 0 THEN -tailWinPoints(dealerE)
        ELSE IF cmp > 0 THEN tailWinPoints(playerE)
        ELSE -tailWinPoints(dealerE)

\* The code weighs cat, t[0], t[1], t[2] by 1e9, 1e6, 1e3, 1 in a double.  Every
\* t value is below 100, so the weights 1000000, 10000, 100, 1 give the same
\* order and stay inside TLC's 32-bit integers.
\* the strength of a section with the category alone
strengthOfCat(e, withThird) == e.cat * 1000000

strengthOf(e, withThird) ==
    e.cat * 1000000 + At0(e.t, 1) * 10000 + At0(e.t, 2) * 100
        + (IF withThird THEN At0(e.t, 3) ELSE 0)

strength2(cards) == strengthOf(eval2(cards), FALSE)

strength3(cards) == strengthOf(eval3(cards), TRUE)

isAllFilled(arr) == \A i \in 1..Len(arr) : arr[i] # NoCard

detectFoul(head, mid, tail) ==
    IF ~isAllFilled(head) \/ ~isAllFilled(mid) \/ ~isAllFilled(tail)
    THEN [foul |-> FALSE, msg |-> ""]
    ELSE LET sh == strength2(head)
             sm == strength3(mid)
             st == strength3(tail)
         IN  IF sh > sm THEN [foul |-> TRUE, msg |-> "head>mid"]
             ELSE IF sm > st THEN [foul |-> TRUE, msg |-> "mid>tail"]
             ELSE [foul |-> FALSE, msg |-> ""]

(***************************************************************************)
(* score.js: validateSpecial.                                              *)
(***************************************************************************)
NonNull(cards) == SelectSeq(cards, LAMBDA c : c # NoCard)

NonJ(cards) == SelectSeq(cards, LAMBDA c : c # NoCard /\ ~IsJoker(c))

canBeFlush2(cards) ==
    LET nonJ == NonJ(cards)
    IN  Len(nonJ) <= 1 \/ \A i \in 1..Len(nonJ) : nonJ[i].s = nonJ[1].s

canBeStraight2(cards) ==
    LET nonJ == NonJ(cards)
    IN  \/ Jokers(cards) >= 1
        \/ Len(nonJ) # 2
        \/ LET hi == Max2(nonJ[1].r, nonJ[2].r)
               lo == Min2(nonJ[1].r, nonJ[2].r)
           IN  hi - lo = 1 \/ (hi = 14 /\ lo = 2)

isRed(s) == s = "H" \/ s = "D"

isBlack(s) == s = "S" \/ s = "C"

bonusMap ==
    [allRed |-> 5, allBlack |-> 5, threeSnake |-> 3, fourKind |-> 10,
     fourPairs |-> 10, mixedDragon |-> 15, threeStraightFlush |-> 25,
     twoFourKind |-> 30, greenDragon |-> 100, noHand |-> 3]

RankSet(cards) == {cards[i].r : i \in 1..Len(cards)}

\* rankCounts()[r]
rankCount(cards, r) == Cardinality({i \in 1..Len(cards) : cards[i].r = r})

SetMax(S) == CHOOSE x \in S : \A y \in S : x >= y

SetMin(S) == CHOOSE x \in S : \A y \in S : x <= y

\* The sum of f[x] over x in S.
RECURSIVE SetSum(_, _)
SetSum(S, f) ==
    IF S = {} THEN 0
    ELSE LET x == CHOOSE y \in S : TRUE IN f[x] + SetSum(S \ {x}, f)

canMakeFourKindCount(nonJ, jokers) ==
    \/ \E r \in RankSet(nonJ) : rankCount(nonJ, r) + jokers >= 4
    \/ jokers >= 4

\* The ranks of Object.keys(counts) (ascending), stably sorted by count descending.
RECURSIVE ranksByCount(_, _)
ranksByCount(nonJ, left) ==
    IF left = {} THEN <<>>
    ELSE LET top == SetMax({rankCount(nonJ, r) : r \in left})
             r0 == SetMin({r \in left : rankCount(nonJ, r) = top})
         IN  <<r0>> \o ranksByCount(nonJ, left \ {r0})

\* The loop of canMakeTwoFourKind from position i on, with j jokers left and
\* `made` fours made.
RECURSIVE twoFourLoop(_, _, _, _, _)
twoFourLoop(nonJ, ranks, i, j, made) ==
    IF i > Len(ranks)
    THEN (made = 1 /\ j >= 4) \/ (made = 0 /\ j >= 8)
    ELSE LET need == Max2(0, 4 - rankCount(nonJ, ranks[i]))
         IN  IF need <= j
             THEN (made + 1 >= 2) \/ twoFourLoop(nonJ, ranks, i + 1, j - need, made + 1)
             ELSE twoFourLoop(nonJ, ranks, i + 1, j, made)

canMakeTwoFourKind(nonJ, jokers) ==
    twoFourLoop(nonJ, ranksByCount(nonJ, RankSet(nonJ)), 1, jokers, 0)

canMakeFourPairs(nonJ, jokers) ==
    LET pairs0 == SetSum(RankSet(nonJ), [r \in RankSet(nonJ) |-> rankCount(nonJ, r) \div 2])
        singles == SetSum(RankSet(nonJ), [r \in RankSet(nonJ) |-> rankCount(nonJ, r) % 2])
        useToPairSingles == Min2(jokers, singles)
        jLeft == jokers - useToPairSingles
    IN  pairs0 + useToPairSingles + (jLeft \div 2) >= 4

canMakeLength9Straight(cards, requireSameColor) ==
    LET straightCards == NonNull(cards)
        straightJokers == Jokers(straightCards)
        straightNonJ == NonJ(straightCards)
        wrongColor ==
            \/ requireSameColor = "red"
               /\ \E i \in 1..Len(straightNonJ) : ~isRed(straightNonJ[i].s)
            \/ requireSameColor = "black"
               /\ \E i \in 1..Len(straightNonJ) : ~isBlack(straightNonJ[i].s)
        ranks == RankSet(straightNonJ)
        n == Len(straightNonJ)
        ranks1 == {IF r = 14 THEN 1 ELSE r : r \in ranks}
    IN  IF wrongColor THEN FALSE
        ELSE IF Cardinality(ranks) # n THEN FALSE
        ELSE IF n <= 1 THEN TRUE
        ELSE IF SetMax(ranks) - SetMin(ranks) + 1 - n <= straightJokers THEN TRUE
        ELSE 14 \in ranks /\ SetMax(ranks1) - SetMin(ranks1) + 1 - n <= straightJokers

noHandOk(eight) ==
    IF \E i \in 1..Len(eight) : IsJoker(eight[i]) THEN FALSE
    ELSE IF Cardinality(RankSet(eight)) # Len(eight) THEN FALSE
    ELSE ~ \E i, j, k \in 1..Len(eight) :
             i < j /\ j < k /\ eval3NoJoker(<<eight[i], eight[j], eight[k]>>).cat > 0

validateSpecial(code, all9Cards, sub, evals) ==
    LET c == IF code = "" THEN "none" ELSE code
        all == NonNull(all9Cards)
        jokers == Jokers(all)
        nonJ == NonJ(all)
        eightCards == NonNull(sub.head \o sub.mid \o sub.tail)
        eightNonJ == NonJ(eightCards)
        ok ==
            CASE c = "allRed" -> \A i \in 1..Len(eightNonJ) : isRed(eightNonJ[i].s)
              [] c = "allBlack" -> \A i \in 1..Len(eightNonJ) : isBlack(eightNonJ[i].s)
              [] c = "threeSnake" ->
                    canBeStraight2(sub.head) /\ evals.mid.cat >= 3 /\ evals.tail.cat >= 3
              [] c = "threeStraightFlush" ->
                    /\ canBeStraight2(sub.head) /\ canBeFlush2(sub.head)
                    /\ evals.mid.cat = 5 /\ evals.tail.cat = 5
              [] c = "noHand" -> noHandOk(eightCards)
              [] c = "fourKind" -> canMakeFourKindCount(nonJ, jokers)
              [] c = "twoFourKind" -> canMakeTwoFourKind(nonJ, jokers)
              [] c = "fourPairs" -> canMakeFourPairs(nonJ, jokers)
              [] c = "mixedDragon" -> canMakeLength9Straight(eightCards, "")
              [] c = "greenDragon" ->
                    \/ canMakeLength9Straight(eightCards, "red")
                    \/ canMakeLength9Straight(eightCards, "black")
              [] OTHER -> FALSE
    IN  IF c = "none" THEN [ok |-> TRUE, bonus |-> 0]
        ELSE [ok |-> ok,
              bonus |-> IF ok /\ c \in DOMAIN bonusMap THEN bonusMap[c] ELSE 0]

(***************************************************************************)
(* score.js: dealer selection and computeRoundResult.  A `submissions`     *)
(* object is the sequence of its entries [id, sub] in Object.keys order;   *)
(* ids are positive integers whose order stands for the string order of    *)
(* the ids; a sub is [dealerCard, head, mid, tail, report].                *)
(***************************************************************************)
NoId == 0       \* null: no id

IdsOf(s) == {s[i].id : i \in 1..Len(s)}

SubOf(s, id) == (CHOOSE e \in SetOf(s) : e.id = id).sub

compareSelectCard(a, b) ==
    LET suitOrder == [S |-> 4, H |-> 3, D |-> 2, C |-> 1, J |-> 5]
        ra == IF a.s = "J" THEN 100 ELSE a.r
        rb == IF b.s = "J" THEN 100 ELSE b.r
    IN  IF ra # rb THEN ra - rb ELSE suitOrder[a.s] - suitOrder[b.s]

\* The loop without its id comparison: of equal cards the first enumerated stays.
RECURSIVE dealerLoopFirst(_, _, _)
dealerLoopFirst(s, i, bestId) ==
    IF i > Len(s) THEN bestId
    ELSE IF s[i].sub.dealerCard = NoCard THEN dealerLoopFirst(s, i + 1, bestId)
    ELSE IF bestId = NoId THEN dealerLoopFirst(s, i + 1, s[i].id)
    ELSE IF compareSelectCard(s[i].sub.dealerCard, SubOf(s, bestId).dealerCard) > 0
    THEN dealerLoopFirst(s, i + 1, s[i].id)
    ELSE dealerLoopFirst(s, i + 1, bestId)

\* The loop of computeDealerIdFromSubmissions from entry i on.
RECURSIVE dealerLoop(_, _, _)
dealerLoop(s, i, bestId) ==
    IF i > Len(s) THEN bestId
    ELSE LET id == s[i].id
             sub == s[i].sub
         IN  IF sub.dealerCard = NoCard THEN dealerLoop(s, i + 1, bestId)
             ELSE IF bestId = NoId THEN dealerLoop(s, i + 1, id)
             ELSE LET cmp == compareSelectCard(sub.dealerCard, SubOf(s, bestId).dealerCard)
                  IN  IF cmp > 0 THEN dealerLoop(s, i + 1, id)
                      ELSE IF cmp = 0 /\ id > bestId THEN dealerLoop(s, i + 1, id)
                      ELSE dealerLoop(s, i + 1, bestId)

computeDealerIdFromSubmissions(s) == dealerLoop(s, 1, NoId)

Thrown(msg) == [err |-> msg, dealerId |-> NoId, results |-> <<>>]

Result(total, head, mid, tail, report) ==
    [total |-> total, per |-> [head |-> head, mid |-> mid, tail |-> tail],
     report |-> report]

reportCodeOf(sub) == IF sub.report = "" THEN "none" ELSE sub.report

evalsOf(sub) == [head |-> eval2(sub.head), mid |-> eval3(sub.mid), tail |-> eval3(sub.tail)]

all9Of(sub) == <<sub.dealerCard>> \o sub.head \o sub.mid \o sub.tail

\* reportCode !== 'none' && sp.ok && sp.bonus > 0
reportOk(sub, sp) == reportCodeOf(sub) # "none" /\ sp.ok /\ sp.bonus > 0

\* The dealer's report branch with the dealer collecting its bonus once, whatever
\* the number of players.
dealerReportResultsOnce(s, ids, dealerId, reportMap) ==
    [id \in ids |->
        Result(IF id = dealerId THEN reportMap[dealerId].bonus
               ELSE -reportMap[dealerId].bonus,
               0, 0, 0, reportCodeOf(SubOf(s, id)))]

\* The dealer's report branch with every non-dealer paying the dealer's bonus,
\* reporters included.
dealerReportResultsAllPay(s, ids, dealerId, reportMap) ==
    [id \in ids |->
        Result(IF id = dealerId THEN reportMap[dealerId].bonus * (Cardinality(ids) - 1)
               ELSE -reportMap[dealerId].bonus,
               0, 0, 0, reportCodeOf(SubOf(s, id)))]

\* The dealer's report branch without `dealerNet -= sp.bonus`: the dealer keeps
\* what it collects and the reporters' bonuses are paid by nobody.
dealerReportResultsKeep(s, ids, dealerId, reportMap) ==
    LET bonus == reportMap[dealerId].bonus
        valid(id) == reportOk(SubOf(s, id), reportMap[id])
        others == ids \ {dealerId}
    IN  [id \in ids |->
            Result(IF id = dealerId
                   THEN bonus * Cardinality({x \in others : ~valid(x)})
                   ELSE IF valid(id) THEN reportMap[id].bonus ELSE -bonus,
                   0, 0, 0, reportCodeOf(SubOf(s, id)))]

\* Lines 477-545: the dealer's report validates.
dealerReportResults(s, ids, dealerId, reportMap) ==
    LET bonus == reportMap[dealerId].bonus
        valid(id) == reportOk(SubOf(s, id), reportMap[id])
        others == ids \ {dealerId}
        hasNonDealerReportOk == \E id \in others : valid(id)
        nonDealer == [id \in others |->
                        IF hasNonDealerReportOk /\ valid(id) THEN reportMap[id].bonus
                        ELSE -bonus]
        dealerNet == IF ~hasNonDealerReportOk THEN bonus * (Cardinality(ids) - 1)
                     ELSE SetSum(others, [id \in others |-> -nonDealer[id]])
    IN  [id \in ids |->
            Result(IF id = dealerId THEN dealerNet ELSE nonDealer[id], 0, 0, 0,
                   reportCodeOf(SubOf(s, id)))]

\* A pass of the main loop that never takes the report branches: a reporter is
\* scored like any other player.
nonDealerResultSections(sub, se, sp, isWulong, wulongDealer, dealerEval) ==
    LET h == IF isWulong THEN -headWinPoints(dealerEval.head)
             ELSE IF wulongDealer THEN headWinPoints(se.head)
             ELSE headSectionScore(se.head, dealerEval.head)
        m == IF isWulong THEN -midWinPoints(dealerEval.mid)
             ELSE IF wulongDealer THEN midWinPoints(se.mid)
             ELSE midSectionScore(se.mid, dealerEval.mid)
        t == IF isWulong THEN -tailWinPoints(dealerEval.tail)
             ELSE IF wulongDealer THEN tailWinPoints(se.tail)
             ELSE tailSectionScore(se.tail, dealerEval.tail)
    IN  Result(h + m + t, h, m, t, reportCodeOf(sub))

\* A pass of the main loop that never takes the wulong branch: a player in
\* wulongSet has its sections compared like any other player.
nonDealerResultCompare(sub, se, sp, isWulong, wulongDealer, dealerEval) ==
    IF reportOk(sub, sp) THEN Result(sp.bonus, 0, 0, 0, reportCodeOf(sub))
    ELSE LET h == IF wulongDealer THEN headWinPoints(se.head)
                  ELSE headSectionScore(se.head, dealerEval.head)
             m == IF wulongDealer THEN midWinPoints(se.mid)
                  ELSE midSectionScore(se.mid, dealerEval.mid)
             t == IF wulongDealer THEN tailWinPoints(se.tail)
                  ELSE tailSectionScore(se.tail, dealerEval.tail)
         IN  Result(h + m + t, h, m, t, reportCodeOf(sub))

\* A pass of the main loop that never looks at wulongDealer: against a dealer in
\* wulongSet the sections are compared as against any other dealer.
nonDealerResultDealerPlain(sub, se, sp, isWulong, wulongDealer, dealerEval) ==
    IF reportOk(sub, sp) THEN Result(sp.bonus, 0, 0, 0, reportCodeOf(sub))
    ELSE IF isWulong
    THEN LET h == -headWinPoints(dealerEval.head)
             m == -midWinPoints(dealerEval.mid)
             t == -tailWinPoints(dealerEval.tail)
         IN  Result(h + m + t, h, m, t, reportCodeOf(sub))
    ELSE LET h == headSectionScore(se.head, dealerEval.head)
             m == midSectionScore(se.mid, dealerEval.mid)
             t == tailSectionScore(se.tail, dealerEval.tail)
         IN  Result(h + m + t, h, m, t, reportCodeOf(sub))

\* Lines 550-671: one pass of the main loop, for a non-dealer id.
nonDealerResult(sub, se, sp, isWulong, wulongDealer, dealerEval) ==
    IF isWulong
    THEN IF reportOk(sub, sp)
         THEN Result(sp.bonus, 0, 0, 0, reportCodeOf(sub))
         ELSE LET h == -headWinPoints(dealerEval.head)
                  m == -midWinPoints(dealerEval.mid)
                  t == -tailWinPoints(dealerEval.tail)
              IN  Result(h + m + t, h, m, t, reportCodeOf(sub))
    ELSE IF reportOk(sub, sp)
    THEN Result(sp.bonus, 0, 0, 0, reportCodeOf(sub))
    ELSE IF wulongDealer
    THEN LET h == headWinPoints(se.head)
             m == midWinPoints(se.mid)
             t == tailWinPoints(se.tail)
         IN  Result(h + m + t, h, m, t, reportCodeOf(sub))
    ELSE LET h == headSectionScore(se.head, dealerEval.head)
             m == midSectionScore(se.mid, dealerEval.mid)
             t == tailSectionScore(se.tail, dealerEval.tail)
         IN  Result(h + m + t, h, m, t, reportCodeOf(sub))

\* Lines 430-439: what the first loop stores for one submission, se being its
\* evaluation.
scoreEntry(sub, se) ==
    [eval |-> se,
     report |-> validateSpecial(sub.report, all9Of(sub), sub, se),
     foul |-> detectFoul(sub.head, sub.mid, sub.tail)]

\* evalMap, reportMap and foulMap, as one map from id to the three entries.
scoreMaps(s) == [id \in IdsOf(s) |-> scoreEntry(SubOf(s, id), evalsOf(SubOf(s, id)))]

\* Lines 441-681: computeRoundResult after its first loop, with its maps m.
settleRound(s, dealerOverride, m) ==
    LET ids == IdsOf(s)
        reportMap == [id \in ids |-> m[id].report]
        isReportValid(id) == reportOk(SubOf(s, id), m[id].report)
        wulongSet == {id \in ids :
                        \/ ~isReportValid(id) /\ m[id].foul.foul
                        \/ reportCodeOf(SubOf(s, id)) # "none" /\ ~isReportValid(id)}
        dealerId == IF dealerOverride # NoId THEN dealerOverride
                    ELSE computeDealerIdFromSubmissions(s)
        others == ids \ {dealerId}
    IN  IF dealerId = NoId THEN Thrown("Unable to determine dealer")
        ELSE IF dealerId \notin ids
        THEN \* submissions[dealerId] and evalMap[dealerId] are undefined: the first
             \* pass that reads dealerEval.head throws a TypeError, and a pass of a
             \* player with a validated report does not read it
             IF \E id \in ids : ~isReportValid(id) THEN Thrown("TypeError")
             ELSE [err |-> "", dealerId |-> dealerId,
                   results |-> [id \in ids |->
                        Result(m[id].report.bonus, 0, 0, 0, reportCodeOf(SubOf(s, id)))]]
        ELSE IF isReportValid(dealerId)
        THEN [err |-> "", dealerId |-> dealerId,
              results |-> dealerReportResults(s, ids, dealerId, reportMap)]
        ELSE LET nonDealer == [id \in others |->
                    nonDealerResult(SubOf(s, id), m[id].eval, m[id].report,
                                    id \in wulongSet, dealerId \in wulongSet,
                                    m[dealerId].eval)]
                 dealerNet == SetSum(others, [id \in others |-> -nonDealer[id].total])
             IN  [err |-> "", dealerId |-> dealerId,
                  results |-> [id \in ids |->
                     IF id = dealerId
                     THEN Result(dealerNet, 0, 0, 0, reportCodeOf(SubOf(s, id)))
                     ELSE nonDealer[id]]]

computeRoundResult(s, dealerOverride) ==
    IF IdsOf(s) = {} THEN Thrown("No submissions")
    ELSE IF \E id \in IdsOf(s) : SubOf(s, id).dealerCard = NoCard
    THEN Thrown("Missing dealer card")
    ELSE settleRound(s, dealerOverride, scoreMaps(s))

(***************************************************************************)
(* The inputs of the settlement specification: the arrangements player id  *)
(* may submit.  POST /score takes any submissions object, so the hands of  *)
(* different players need not come from one deck.                          *)
(***************************************************************************)
Sub(dc, head, mid, tail, report) ==
    [dealerCard |-> dc, head |-> head, mid |-> mid, tail |-> tail, report |-> report]

\* head pair of 2s, mid pair, tail three-of-kind
HandPairs ==
    Sub(Card(9, "D"), <<Card(2, "S"), Card(2, "H")>>,
        <<Card(5, "S"), Card(5, "D"), Card(7, "C")>>,
        <<Card(13, "S"), Card(13, "D"), Card(13, "H")>>, "none")

\* the documented two-player scenario: head 2S 2H, mid and tail high-card (head above mid: a foul)
HandScenario ==
    Sub(Card(10, "C"), <<Card(2, "S"), Card(2, "H")>>,
        <<Card(13, "D"), Card(9, "C"), Card(4, "S")>>,
        <<Card(14, "D"), Card(11, "C"), Card(7, "H")>>, "none")

\* three high-card sections
HandHighs ==
    Sub(Card(14, "S"), <<Card(12, "H"), Card(4, "D")>>,
        <<Card(13, "H"), Card(8, "H"), Card(6, "S")>>,
        <<Card(14, "H"), Card(11, "D"), Card(9, "C")>>, "none")

\* the ranks of HandHighs in other suits: every section ties with it
HandHighsTie ==
    Sub(Card(13, "C"), <<Card(12, "S"), Card(4, "C")>>,
        <<Card(13, "D"), Card(8, "S"), Card(6, "C")>>,
        <<Card(14, "C"), Card(11, "S"), Card(9, "D")>>, "none")

\* head pair of aces, mid three-of-kind, tail straight-flush
HandStrong ==
    Sub(Card(3, "D"), <<Card(14, "S"), Card(14, "H")>>,
        <<Card(7, "S"), Card(7, "H"), Card(7, "D")>>,
        <<Card(10, "C"), Card(11, "C"), Card(12, "C")>>, "none")

\* mid and tail straight-flush
HandFlushes ==
    Sub(Card(4, "S"), <<Card(3, "C"), Card(5, "D")>>,
        <<Card(8, "D"), Card(9, "D"), Card(10, "D")>>,
        <<Card(12, "S"), Card(13, "S"), Card(14, "S")>>, "none")

\* head pair above a high-card mid: a foul
HandFoul ==
    Sub(Card(6, "D"), <<Card(13, "C"), Card(13, "H")>>,
        <<Card(2, "D"), Card(7, "S"), Card(9, "H")>>,
        <<Card(3, "S"), Card(8, "C"), Card(11, "H")>>, "none")

\* all red, claimed; mid pair above a high-card tail: a foul with a valid report
HandRedFoul ==
    Sub(Card(2, "D"), <<Card(3, "H"), Card(4, "H")>>,
        <<Card(6, "H"), Card(6, "D"), Card(9, "D")>>,
        <<Card(10, "H"), Card(11, "H"), Card(13, "D")>>, "allRed")

\* all red, claimed, no foul
HandRed ==
    Sub(Card(5, "H"), <<Card(3, "D"), Card(7, "H")>>,
        <<Card(8, "H"), Card(10, "D"), Card(13, "D")>>,
        <<Card(14, "D"), Card(12, "H"), Card(2, "H")>>, "allRed")

\* all black claimed with a red king: no foul, the report fails
HandBadReport ==
    Sub(Card(5, "C"), <<Card(6, "C"), Card(7, "S")>>,
        <<Card(8, "C"), Card(9, "S"), Card(10, "S")>>,
        <<Card(11, "S"), Card(12, "S"), Card(13, "H")>>, "allBlack")

\* four nines claimed, the big joker as dealer-selection card
HandFourKind ==
    Sub(BJ, <<Card(9, "S"), Card(9, "H")>>,
        <<Card(9, "C"), Card(9, "D"), Card(2, "C")>>,
        <<Card(5, "D"), Card(5, "H"), Card(5, "S")>>, "fourKind")

\* the small joker as dealer-selection card
HandSmallJoker ==
    Sub(SJ, <<Card(10, "S"), Card(3, "C")>>,
        <<Card(11, "D"), Card(11, "C"), Card(4, "H")>>,
        <<Card(12, "D"), Card(12, "C"), Card(6, "D")>>, "none")

\* the big joker as dealer-selection card, no report
HandBigJoker ==
    Sub(BJ, <<Card(8, "S"), Card(5, "C")>>,
        <<Card(10, "D"), Card(7, "C"), Card(4, "H")>>,
        <<Card(14, "D"), Card(12, "C"), Card(6, "D")>>, "none")

\* a joker in the head (a pair of aces) and one in the tail
HandWild ==
    Sub(Card(8, "S"), <<SJ, Card(14, "D")>>,
        <<Card(12, "S"), Card(12, "H"), Card(12, "D")>>,
        <<Card(4, "C"), BJ, Card(6, "C")>>, "none")

\* the ace of spades as dealer-selection card, as in HandHighs
HandAceAgain ==
    Sub(Card(14, "S"), <<Card(2, "C"), Card(3, "C")>>,
        <<Card(4, "D"), Card(5, "D"), Card(7, "D")>>,
        <<Card(9, "H"), Card(10, "H"), Card(12, "H")>>, "none")

Hands(id) ==
    CASE id = 1 -> {HandPairs, HandScenario, HandHighs, HandFoul, HandFourKind,
                     HandBigJoker}
      [] id = 2 -> {HandHighsTie, HandStrong, HandRedFoul, HandSmallJoker, HandAceAgain}
      [] id = 3 -> {HandFlushes, HandBadReport, HandWild, HandRed}
      [] OTHER -> {HandHighs, HandSmallJoker}

(***************************************************************************)
(* server.js: the room.  A JS object or Map used as a dictionary is a      *)
(* function on the set of its keys; room.submissions is the sequence of    *)
(* its entries in key order, as computeRoundResult enumerates it.          *)
(***************************************************************************)
Has(f, k) == k \in DOMAIN f

Put(f, k, v) == [x \in DOMAIN f \cup {k} |-> IF x = k THEN v ELSE f[x]]

\* delete that empties the map
DelAll(f, k) == <<>>

Del(f, k) == [x \in DOMAIN f \ {k} |-> f[x]]

Truthy(f, k) == Has(f, k) /\ f[k]      \* !!map[k]

\* Array.prototype.sort() on ids
RECURSIVE Sorted(_)
Sorted(S) == IF S = {} THEN <<>> ELSE <<SetMin(S)>> \o Sorted(S \ {SetMin(S)})

HasSub(s, id) == id \in IdsOf(s)

\* submissions[id] = sub: an existing key keeps its place, a new one goes last
PutSub(s, id, sub) ==
    IF HasSub(s, id)
    THEN [i \in 1..Len(s) |-> IF s[i].id = id THEN [id |-> id, sub |-> sub] ELSE s[i]]
    ELSE Append(s, [id |-> id, sub |-> sub])

DelSub(s, id) == SelectSeq(s, LAMBDA e : e.id # id)

NoPick == [controllerId |-> NoId, kind |-> "", round |-> 0]    \* dealerPick: null

getRoom ==
    [registered |-> TRUE, clients |-> <<>>, seatOrder |-> <<>>,
     disconnectedSeatNames |-> <<>>, cumulative |-> <<>>, cumulativeByName |-> <<>>,
     round |-> 0, started |-> FALSE, dealt |-> <<>>, submissions |-> <<>>,
     revealed |-> FALSE, nextReadyMap |-> <<>>, preStartReadyMap |-> <<>>,
     dealerPick |-> NoPick, dealerOverride |-> NoId]

NoRoom == [getRoom EXCEPT !.registered = FALSE]     \* rooms has no entry

\* A handler's run w: the room it works on (room), the messages it has sent (out),
\* the reveals it has broadcast (log), and the calls it makes last, in this order:
\* resolveReveal(room, w.override) if w.reveal, maybeStartNextRound(room) if
\* w.startNext, cleanRoom(room) if w.clean.
Msg(to, t, round, who) == [to |-> to, t |-> t, round |-> round, who |-> who]

send(w, to, t, round, who) == [w EXCEPT !.out = Append(@, Msg(to, t, round, who))]

\* The ids of room.clients in ascending order (the model does not keep the Map's
\* insertion order, which decides only the order of the copies of a broadcast).
relayToRoom(w, t, round, who, exceptId) ==
    LET to == Sorted(DOMAIN w.room.clients \ {exceptId})
    IN  [w EXCEPT !.out = @ \o [i \in 1..Len(to) |-> Msg(to[i], t, round, who)]]

broadcastPlayers(w) == relayToRoom(w, "players", 0, NoId, NoId)

normalizeCard(c) ==
    IF c = NoCard THEN NoCard
    ELSE IF c.s = "J" THEN (IF c \in {BJ, SJ} THEN c ELSE NoCard)
    ELSE IF c.r < 2 \/ c.r > 14 THEN NoCard
    ELSE IF c.s \notin SetOf(SUITS) THEN NoCard
    ELSE c

NormalizeAll(cards) == [i \in 1..Len(cards) |-> normalizeCard(cards[i])]

\* validateSubmission without the look-up of the cards in the dealt nine
validateSubmissionAnyCard(cards9, sub) ==
    LET used == <<sub.dealerCard>> \o sub.head \o sub.mid \o sub.tail
    IN  IF \/ Len(cards9) # 9 \/ sub.dealerCard = NoCard
           \/ Len(sub.head) # 2 \/ Len(sub.mid) # 3 \/ Len(sub.tail) # 3
           \/ NoCard \in SetOf(used) \/ Cardinality(SetOf(used)) # Len(used)
        THEN [ok |-> FALSE, msg |-> "rejected", data |-> sub]
        ELSE [ok |-> TRUE, msg |-> "", data |-> sub]

\* cards9 is <<>> for a seat that was not dealt
validateSubmission(cards9, sub) ==
    LET dealerCard == normalizeCard(sub.dealerCard)
        head == NormalizeAll(sub.head)
        mid == NormalizeAll(sub.mid)
        tail == NormalizeAll(sub.tail)
        used == <<dealerCard>> \o head \o mid \o tail
        bad(msg) == [ok |-> FALSE, msg |-> msg, data |-> sub]
    IN  IF Len(cards9) # 9 THEN bad("not dealt")
        ELSE IF dealerCard = NoCard THEN bad("no dealer card")
        ELSE IF Len(head) # 2 \/ Len(mid) # 3 \/ Len(tail) # 3 THEN bad("section sizes")
        ELSE IF \E i \in 2..Len(used) : used[i] = NoCard THEN bad("empty slot")
        ELSE IF Cardinality(SetOf(used)) # Len(used) THEN bad("duplicate card")
        ELSE IF \E i \in 1..Len(used) : used[i] \notin SetOf(cards9) THEN bad("not in hand")
        ELSE [ok |-> TRUE, msg |-> "",
              data |-> Sub(dealerCard, head, mid, tail, sub.report)]

Connected(R) == SelectSeq(R.seatOrder, LAMBDA id : Has(R.clients, id))

\* pruneDisconnectedSeats that keeps every seat
pruneDisconnectedSeatsKeep(R) == R

pruneDisconnectedSeats(R) ==
    LET gone == {id \in SetOf(R.seatOrder) : ~Has(R.clients, id)}
        keepKeys(f) == [x \in DOMAIN f \ gone |-> f[x]]
    IN  [R EXCEPT !.dealt = keepKeys(@),
                  !.submissions = SelectSeq(@, LAMBDA e : e.id \notin gone),
                  !.nextReadyMap = keepKeys(@),
                  !.preStartReadyMap = keepKeys(@),
                  !.cumulative = keepKeys(@),
                  !.disconnectedSeatNames = keepKeys(@),
                  !.seatOrder = Connected(R)]

\* the players of the round taken to be the seats that have submitted
currentRoundPlayerIdsSubmitted(R) == Sorted(IdsOf(R.submissions))

currentRoundPlayerIds(R) ==
    IF R.started /\ ~R.revealed /\ DOMAIN R.dealt # {} THEN Sorted(DOMAIN R.dealt)
    ELSE IF DOMAIN R.dealt = {} THEN Connected(R)
    ELSE SelectSeq(R.seatOrder, LAMBDA id : Has(R.clients, id) /\ Has(R.dealt, id))

\* buildAutoSubmission with the last card as dealer-selection card
buildAutoSubmissionLast(cards9) ==
    Sub(cards9[9], SubSeq(cards9, 1, 2), SubSeq(cards9, 3, 5), SubSeq(cards9, 6, 8), "none")

buildAutoSubmission(cards9) ==
    Sub(cards9[1], SubSeq(cards9, 2, 3), SubSeq(cards9, 4, 6), SubSeq(cards9, 7, 9), "none")

\* deck is the shuffled deck: seat k of ids gets deck.splice(0, 9)
\* room.dealt after `for (const id of ids) room.dealt[id] = { all9: deck.splice(0, 9) }`:
\* the k-th id takes the next nine cards, or what is left of the deck.
dealHands(ids, deck) ==
    [id \in SetOf(ids) |->
        LET k == CHOOSE i \in 1..Len(ids) : ids[i] = id
        IN  IF 9 * (k - 1) >= Len(deck) THEN <<>>
            ELSE SubSeq(deck, 9 * (k - 1) + 1, Min2(9 * k, Len(deck)))]

dealRound(w, deck) ==
    LET R == w.room
        ids == Connected(R)
        R1 == [R EXCEPT !.round = @ + 1, !.started = TRUE, !.revealed = FALSE,
                        !.submissions = <<>>, !.nextReadyMap = <<>>,
                        !.dealerPick = NoPick, !.dealerOverride = NoId,
                        !.preStartReadyMap =
                            [x \in DOMAIN @ \cup SetOf(ids) |->
                                IF x \in SetOf(ids) THEN FALSE ELSE @[x]],
                        !.dealt = dealHands(ids, deck)]
        w1 == relayToRoom([w EXCEPT !.room = R1], "start", R1.round, NoId, NoId)
    IN  IF Len(ids) = 0 THEN w
        ELSE [w1 EXCEPT !.out = @ \o [i \in 1..Len(ids) |-> Msg(ids[i], "deal", R1.round, NoId)]]

\* maybeStartNextRound that starts the room once some connected seat is pre-ready
maybeStartNextRoundAny(w, deck) ==
    IF w.room.started \/ Len(Connected(w.room)) = 0 THEN w
    ELSE IF \E i \in 1..Len(Connected(w.room)) :
                Truthy(w.room.preStartReadyMap, Connected(w.room)[i])
    THEN dealRound(w, deck)
    ELSE w

maybeStartNextRound(w, deck) ==
    LET R == w.room
        ids == Connected(R)
        nextReadyIds == currentRoundPlayerIds(R)
    IN  IF Len(ids) = 0 THEN w
        ELSE IF ~R.started
        THEN IF \A i \in 1..Len(ids) : Truthy(R.preStartReadyMap, ids[i])
             THEN dealRound(w, deck)
             ELSE w
        ELSE IF ~R.revealed THEN w
        ELSE IF ~(Len(nextReadyIds) > 0
                  /\ \A i \in 1..Len(nextReadyIds) : Truthy(R.nextReadyMap, nextReadyIds[i]))
        THEN w
        ELSE LET w1 == [w EXCEPT !.room = pruneDisconnectedSeats(R)]
                 w2 == broadcastPlayers(w1)
                 w3 == relayToRoom(w2, "nextRound", R.round + 1, NoId, NoId)
             IN  dealRound(w3, deck)

findDealerPickController(s, ids) ==
    LET big == {id \in SetOf(ids) : HasSub(s, id) /\ SubOf(s, id).dealerCard = BJ}
        small == {id \in SetOf(ids) : HasSub(s, id) /\ SubOf(s, id).dealerCard = SJ}
    IN  IF big # {} THEN [controllerId |-> SetMin(big), kind |-> "BJ"]
        ELSE IF small # {} THEN [controllerId |-> SetMin(small), kind |-> "SJ"]
        ELSE [controllerId |-> NoId, kind |-> ""]

\* The loop of resolveReveal over ids[i..]: the cumulative totals by id and by name.
RECURSIVE addTotals(_, _, _, _)
addTotals(R, ids, i, results) ==
    IF i > Len(ids) THEN R
    ELSE LET id == ids[i]
             playerName == IF Has(R.clients, id) THEN R.clients[id] ELSE ""
             baseline == IF Has(R.cumulative, id) THEN R.cumulative[id]
                         ELSE IF playerName # "" /\ Has(R.cumulativeByName, playerName)
                              THEN R.cumulativeByName[playerName]
                              ELSE 0
             roundTotal == IF Has(results, id) THEN results[id].total ELSE 0
             R1 == [R EXCEPT !.cumulative = Put(@, id, baseline + roundTotal)]
             R2 == IF playerName # ""
                   THEN [R1 EXCEPT !.cumulativeByName = Put(@, playerName, baseline + roundTotal)]
                   ELSE R1
         IN  addTotals(R2, ids, i + 1, results)

\* resolveReveal from the try block on, scoreData being what computeRoundResult
\* returned or threw.
revealScore(w, ids, scoreData) ==
    LET R == w.room
        R1 == addTotals(R, ids, 1, scoreData.results)
        R2 == [R1 EXCEPT !.revealed = TRUE, !.dealerPick = NoPick,
                         !.dealerOverride = NoId,
                         !.nextReadyMap = [id \in SetOf(ids) |-> FALSE]]
        w1 == [w EXCEPT !.room = R2,
                        !.log = Append(@, [round |-> R.round, dealerId |-> scoreData.dealerId])]
        w2 == relayToRoom(w1, "reveal", R.round, scoreData.dealerId, NoId)
    IN  IF scoreData.err # "" THEN relayToRoom(w, "error", R.round, NoId, NoId)
        ELSE relayToRoom(w2, "nextReady", R.round, NoId, NoId)

resolveReveal(w, dealerOverride) ==
    LET ids == currentRoundPlayerIds(w.room)
    IN  IF Len(ids) = 0 THEN w
        ELSE IF \E i \in 1..Len(ids) : ~HasSub(w.room.submissions, ids[i]) THEN w
        ELSE revealScore(w, ids, computeRoundResult(w.room.submissions, dealerOverride))

\* startDealerPickOrReveal that waits for the controller even when it is offline.
startDealerPickOrRevealWaits(w) ==
    LET R == w.room
        ids == currentRoundPlayerIds(R)
        controller == findDealerPickController(R.submissions, ids)
        cleared == [w EXCEPT !.room.dealerPick = NoPick]
        picking == [w EXCEPT !.room.dealerPick =
                                [controllerId |-> controller.controllerId,
                                 kind |-> controller.kind, round |-> R.round],
                             !.room.dealerOverride = NoId]
    IN  IF Len(ids) = 0 THEN w
        ELSE IF \E i \in 1..Len(ids) : ~HasSub(R.submissions, ids[i]) THEN w
        ELSE IF controller.controllerId = NoId
        THEN [cleared EXCEPT !.reveal = TRUE, !.override = NoId]
        ELSE relayToRoom(
                send(picking, controller.controllerId, "dealerPickStart", R.round,
                     controller.controllerId),
                "dealerPickWait", R.round, controller.controllerId,
                controller.controllerId)

startDealerPickOrReveal(w) ==
    LET R == w.room
        ids == currentRoundPlayerIds(R)
        controller == findDealerPickController(R.submissions, ids)
        cleared == [w EXCEPT !.room.dealerPick = NoPick]
        picking == [w EXCEPT !.room.dealerPick =
                                [controllerId |-> controller.controllerId,
                                 kind |-> controller.kind, round |-> R.round],
                             !.room.dealerOverride = NoId]
    IN  IF Len(ids) = 0 THEN w
        ELSE IF \E i \in 1..Len(ids) : ~HasSub(R.submissions, ids[i]) THEN w
        ELSE IF controller.controllerId = NoId
        THEN [cleared EXCEPT !.reveal = TRUE, !.override = NoId]
        ELSE IF ~Has(R.clients, controller.controllerId)
        THEN [picking EXCEPT !.room.dealerPick = NoPick, !.reveal = TRUE, !.override = NoId]
        ELSE relayToRoom(
                send(picking, controller.controllerId, "dealerPickStart", R.round,
                     controller.controllerId),
                "dealerPickWait", R.round, controller.controllerId,
                controller.controllerId)

NoOut == [err |-> "not called", dealerId |-> NoId, results |-> <<>>]

\* No call of the functions below is under way.
NoInput == [kind |-> "none", sub |-> Sub(NoCard, <<>>, <<>>, <<>>, ""), ids |-> <<>>]

NoResult ==
    [called |-> FALSE, eval |-> Ev(-1, <<>>, ""), foul |-> [foul |-> FALSE, msg |-> ""],
     special |-> [ok |-> FALSE, bonus |-> 0], dealt |-> <<>>]

CallUnused ==
    /\ input = NoInput
    /\ result = NoResult

(***************************************************************************)
(* The settlement specification: a submissions object is filled entry by   *)
(* entry, in any key order, and handed to computeRoundResult with any      *)
(* dealerOverride (POST /score).                                           *)
(***************************************************************************)
RoomUnused ==
    /\ room = NoRoom
    /\ conn = [c \in 1..MaxConn |-> "new"]
    /\ revealLog = <<>>

InitScore ==
    /\ subs = <<>>
    /\ override = NoId
    /\ out = NoOut
    /\ RoomUnused
    /\ CallUnused

AddSubmission(id, sub) ==
    /\ out = NoOut
    /\ id \notin IdsOf(subs)
    /\ subs' = Append(subs, [id |-> id, sub |-> sub])
    /\ UNCHANGED <<override, out, room, conn, revealLog, input, result>>

Settle(dealerOverride) ==
    /\ out = NoOut
    /\ override' = dealerOverride
    /\ out' = computeRoundResult(subs, dealerOverride)
    /\ UNCHANGED <<subs, room, conn, revealLog, input, result>>

NextScore ==
    \/ \E id \in 1..MaxPlayers : \E sub \in Hands(id) : AddSubmission(id, sub)
    \/ \E dealerOverride \in 0..MaxPlayers : Settle(dealerOverride)

SpecScore == InitScore /\ [][NextScore]_vars

(***************************************************************************)
(* server.js: the handlers of ws.on('message') and ws.on('close'), each    *)
(* from the room as it stands up to the calls it makes last.               *)
(***************************************************************************)
Begin ==
    [room |-> room, out |-> <<>>, log |-> revealLog,
     reveal |-> FALSE, override |-> NoId, startNext |-> FALSE, clean |-> FALSE]

readyBroadcast(w) == relayToRoom(w, "ready", w.room.round, NoId, NoId)

\* join that does not look up the score kept under the name
joinRoomFresh(w, c, playerName) ==
    LET R0 == IF w.room.registered THEN w.room ELSE getRoom
        R1 == [R0 EXCEPT !.clients = Put(@, c, playerName),
                         !.disconnectedSeatNames = Del(@, c),
                         !.seatOrder = IF c \in SetOf(@) THEN @ ELSE Append(@, c),
                         !.preStartReadyMap = Put(@, c, FALSE)]
        w1 == send(send([w EXCEPT !.room = R1], c, "joined", 0, c), c, "welcome", 0, NoId)
        w2 == broadcastPlayers(w1)
        w3 == IF ~R1.started THEN readyBroadcast(w2) ELSE w2
        w4 == IF R1.started /\ ~R1.revealed /\ Has(R1.dealt, c)
              THEN send(w3, c, "deal", R1.round, NoId)
              ELSE IF R1.started /\ ~R1.revealed
              THEN send(w3, c, "waitNextRound", R1.round, NoId)
              ELSE w3
        w5 == IF R1.revealed THEN send(w4, c, "waitNextRound", R1.round, NoId) ELSE w4
    IN  [w5 EXCEPT !.startNext = TRUE]

\* msg.t = 'create-room' | 'join-room'
joinRoom(w, c, playerName) ==
    LET R0 == IF w.room.registered THEN w.room ELSE getRoom
        R1 == [R0 EXCEPT !.clients = Put(@, c, playerName),
                         !.disconnectedSeatNames = Del(@, c),
                         !.seatOrder = IF c \in SetOf(@) THEN @ ELSE Append(@, c),
                         !.preStartReadyMap = Put(@, c, FALSE),
                         !.cumulative =
                            IF ~Has(@, c) /\ Has(R0.cumulativeByName, playerName)
                            THEN Put(@, c, R0.cumulativeByName[playerName])
                            ELSE @]
        w1 == send(send([w EXCEPT !.room = R1], c, "joined", 0, c), c, "welcome", 0, NoId)
        w2 == broadcastPlayers(w1)
        w3 == IF ~R1.started THEN readyBroadcast(w2) ELSE w2
        w4 == IF R1.started /\ ~R1.revealed /\ Has(R1.dealt, c)
              THEN send(w3, c, "deal", R1.round, NoId)
              ELSE IF R1.started /\ ~R1.revealed
              THEN send(w3, c, "waitNextRound", R1.round, NoId)
              ELSE w3
        w5 == IF R1.revealed THEN send(w4, c, "waitNextRound", R1.round, NoId) ELSE w4
    IN  [w5 EXCEPT !.startNext = TRUE]

\* payload.t = 'preReady'
preReady(w, c, ready) ==
    IF w.room.started THEN w
    ELSE [readyBroadcast([w EXCEPT !.room.preStartReadyMap = Put(@, c, ready)])
            EXCEPT !.startNext = TRUE]

\* submit that stores the payload before it looks at the validation
submitStoreFirst(w, c, payload) ==
    LET dealt == IF Has(w.room.dealt, c) THEN w.room.dealt[c] ELSE <<>>
        ok == validateSubmission(dealt, payload)
        stored == [w EXCEPT !.room.submissions = PutSub(@, c, ok.data)]
    IN  IF ~ok.ok THEN send(stored, c, "error", 0, NoId)
        ELSE startDealerPickOrReveal(readyBroadcast(stored))

\* payload.t = 'submit'
submit(w, c, payload) ==
    LET dealt == IF Has(w.room.dealt, c) THEN w.room.dealt[c] ELSE <<>>
        ok == validateSubmission(dealt, payload)
        stored == [w EXCEPT !.room.submissions = PutSub(@, c, ok.data)]
    IN  IF ~ok.ok THEN send(w, c, "error", 0, NoId)
        ELSE startDealerPickOrReveal(readyBroadcast(stored))

\* payload.t = 'dealerPickChoice', pick = {round, dealerId}
\* dealerPickChoice that takes the pick from any connection
dealerPickChoiceAnyone(w, c, pickRound, dealerId) ==
    IF \/ w.room.dealerPick = NoPick
       \/ pickRound # w.room.dealerPick.round
       \/ dealerId \notin SetOf(currentRoundPlayerIds(w.room))
    THEN send(w, c, "error", 0, NoId)
    ELSE [relayToRoom([w EXCEPT !.room.dealerOverride = dealerId, !.room.dealerPick = NoPick],
                      "dealerPickFinal", w.room.round, dealerId, NoId)
            EXCEPT !.reveal = TRUE, !.override = dealerId]

\* dealerPickChoice that forgets whom the controller named
dealerPickChoiceForgets(w, c, pickRound, dealerId) ==
    IF \/ w.room.dealerPick = NoPick
       \/ pickRound # w.room.dealerPick.round
       \/ c # w.room.dealerPick.controllerId
       \/ dealerId \notin SetOf(currentRoundPlayerIds(w.room))
    THEN send(w, c, "error", 0, NoId)
    ELSE [relayToRoom([w EXCEPT !.room.dealerPick = NoPick],
                      "dealerPickFinal", w.room.round, dealerId, NoId)
            EXCEPT !.reveal = TRUE, !.override = NoId]

dealerPickChoice(w, c, pickRound, dealerId) ==
    LET expected == w.room.dealerPick
        ids == currentRoundPlayerIds(w.room)
        chosen == [w EXCEPT !.room.dealerOverride = dealerId, !.room.dealerPick = NoPick]
    IN  IF expected = NoPick THEN send(w, c, "error", 0, NoId)
        ELSE IF pickRound # expected.round THEN send(w, c, "error", 0, NoId)
        ELSE IF c # expected.controllerId THEN send(w, c, "error", 0, NoId)
        ELSE IF dealerId \notin SetOf(ids) THEN send(w, c, "error", 0, NoId)
        ELSE [relayToRoom(chosen, "dealerPickFinal", w.room.round, dealerId, NoId)
                EXCEPT !.reveal = TRUE, !.override = dealerId]

\* nextReady that takes the flag of any connection
nextReadyAnyone(w, c, round) ==
    IF ~w.room.revealed THEN w
    ELSE IF round # 0 /\ round # w.room.round THEN w
    ELSE [relayToRoom([w EXCEPT !.room.nextReadyMap = Put(@, c, TRUE)],
                      "nextReady", w.room.round, NoId, NoId)
            EXCEPT !.startNext = TRUE]

\* payload.t = 'nextReady'; round 0 stands for a missing round field
nextReady(w, c, round) ==
    IF ~w.room.revealed THEN w
    ELSE IF round # 0 /\ round # w.room.round THEN w
    ELSE IF ~Has(w.room.nextReadyMap, c) THEN w
    ELSE [relayToRoom([w EXCEPT !.room.nextReadyMap = Put(@, c, TRUE)],
                      "nextReady", w.room.round, NoId, NoId)
            EXCEPT !.startNext = TRUE]

cleanRoom(w) ==
    IF DOMAIN w.room.clients = {} THEN [w EXCEPT !.room = NoRoom, !.log = <<>>] ELSE w

\* ws.on('close') of a connection that joined the room
close(w, c) ==
    LET R == w.room
        closedName == IF Has(R.clients, c) THEN R.clients[c] ELSE ""
        R1 == IF closedName # "" /\ Has(R.cumulative, c)
              THEN [R EXCEPT !.cumulativeByName = Put(@, closedName, R.cumulative[c])]
              ELSE R
        leftDuringRound == R.started /\ ~R.revealed /\ Has(R.dealt, c)
        R2 == IF leftDuringRound /\ ~HasSub(R1.submissions, c)
              THEN [R1 EXCEPT !.submissions = PutSub(@, c, buildAutoSubmission(R1.dealt[c]))]
              ELSE R1
        R3 == [R2 EXCEPT !.clients = Del(@, c)]
        R4 == IF leftDuringRound
              THEN [R3 EXCEPT !.disconnectedSeatNames =
                                Put(@, c, IF closedName # "" THEN closedName ELSE "player")]
              ELSE [R3 EXCEPT !.seatOrder = SelectSeq(@, LAMBDA id : id # c),
                              !.disconnectedSeatNames = Del(@, c),
                              !.dealt = Del(@, c),
                              !.submissions = DelSub(@, c),
                              !.cumulative = Del(@, c)]
        R5 == [R4 EXCEPT !.nextReadyMap = Del(@, c), !.preStartReadyMap = Del(@, c)]
        w1 == broadcastPlayers([w EXCEPT !.room = R5])
        w2 == IF ~R5.started THEN readyBroadcast(w1) ELSE w1
        w3 == IF leftDuringRound THEN startDealerPickOrReveal(readyBroadcast(w2)) ELSE w2
    IN  [w3 EXCEPT !.startNext = TRUE, !.clean = TRUE]

\* The calls a handler makes last: the reveal, ...
revealCall(w) == IF w.reveal THEN resolveReveal(w, w.override) ELSE w

\* ... and the next round, dealt from the shuffled deck, and the room's removal.
lastCalls(w, deck) ==
    LET w1 == IF w.startNext THEN maybeStartNextRound(w, deck) ELSE w
    IN  IF w.clean THEN cleanRoom(w1) ELSE w1

(***************************************************************************)
(* The inputs of the room specification.                                   *)
(***************************************************************************)
\* The display name connection c joins under: connections 1 and 3 share one.
NameOf(c) == IF c % 2 = 1 THEN "A" ELSE "B"

\* makeDeck54(), in the order it pushes the cards
Deck54 ==
    [i \in 1..54 |->
        IF i = 53 THEN BJ ELSE IF i = 54 THEN SJ
        ELSE Card(((i - 1) % 13) + 2, SUITS[((i - 1) \div 13) + 1])]

\* The deck with the cards of `first` moved to the front.
Front(first) == first \o SelectSeq(Deck54, LAMBDA c : c \notin SetOf(first))

\* The outcomes of shuffle(makeDeck54()) the model deals: the unshuffled order (no
\* joker among the first hands), and one with the big joker on top of the first
\* hand and the small joker on top of the second.
Decks ==
    { Deck54,
      Front(<<BJ>> \o SubSeq(Deck54, 14, 21) \o <<SJ>> \o SubSeq(Deck54, 27, 34)) }

\* What a client may send as its arrangement of cards9: the d-th card to select
\* the dealer, the other eight in dealt order as head, mid and tail; d is 1, or 2
\* to keep a joker dealt first out of the dealer selection.
Arrange(cards9, d) ==
    LET rest == SelectSeq(cards9, LAMBDA c : c # cards9[d])
    IN  Sub(cards9[d], SubSeq(rest, 1, 2), SubSeq(rest, 3, 5), SubSeq(rest, 6, 8), "none")

\* ... and arrangements of cards9 that validateSubmission turns down: no dealer
\* card, sections of 3, 2 and 3 cards, an empty slot, a card used twice, and a
\* card of another hand.
BadArrangements(cards9) ==
    {[Arrange(cards9, 1) EXCEPT !.dealerCard = NoCard],
     Sub(cards9[1], SubSeq(cards9, 2, 4), SubSeq(cards9, 5, 6), SubSeq(cards9, 7, 9), "none"),
     [Arrange(cards9, 1) EXCEPT !.mid[2] = NoCard],
     [Arrange(cards9, 1) EXCEPT !.head[1] = cards9[9]],
     [Arrange(cards9, 1) EXCEPT !.tail[3] =
        CHOOSE x \in SetOf(Deck54) : x \notin SetOf(cards9)]}

Payloads(R, c) ==
    IF Has(R.dealt, c)
    THEN {Arrange(R.dealt[c], d) : d \in {1} \cup (IF IsJoker(R.dealt[c][1]) THEN {2} ELSE {})}
            \cup BadArrangements(R.dealt[c])
    ELSE {HandHighs}

(***************************************************************************)
(* The room specification: connections join, send relay messages and       *)
(* close, one handler at a time.                                           *)
(***************************************************************************)
ScoreUnused ==
    /\ subs = <<>>
    /\ override = NoId
    /\ out = NoOut

Init ==
    /\ room = NoRoom
    /\ conn = [c \in 1..MaxConn |-> "new"]
    /\ revealLog = <<>>
    /\ ScoreUnused
    /\ CallUnused

\* The shuffles to try after w: all of them if the next round is dealt, and one if
\* the deck is not read.
DecksFor(w) ==
    IF lastCalls(w, Deck54).room.round # w.room.round THEN Decks ELSE {Deck54}

\* The handler ran from Begin to w and makes its last calls; the messages it
\* sent are gone.
Done(w) ==
    \E w1 \in {revealCall(w)} : \E deck \in DecksFor(w1) :
        \E w2 \in {lastCalls(w1, deck)} :
            /\ w2.room.round <= MaxRound
            /\ Len(w2.log) <= MaxReveals
            /\ room' = w2.room
            /\ revealLog' = w2.log
            /\ UNCHANGED <<subs, override, out, input, result>>

JoinRoom(c, playerName) ==
    /\ conn[c] = "new"
    /\ \A x \in 1..(c - 1) : NameOf(x) = NameOf(c) => conn[x] = "closed"
    /\ conn' = [conn EXCEPT ![c] = "joined"]
    /\ Done(joinRoom(Begin, c, playerName))

PreReady(c, ready) ==
    /\ conn[c] = "joined"
    /\ UNCHANGED conn
    /\ Done(preReady(Begin, c, ready))

Submit(c, payload) ==
    /\ conn[c] = "joined"
    /\ UNCHANGED conn
    /\ Done(submit(Begin, c, payload))

DealerPickChoice(c, pickRound, dealerId) ==
    /\ conn[c] = "joined"
    /\ UNCHANGED conn
    /\ Done(dealerPickChoice(Begin, c, pickRound, dealerId))

NextReady(c, round) ==
    /\ conn[c] = "joined"
    /\ UNCHANGED conn
    /\ Done(nextReady(Begin, c, round))

Close(c) ==
    /\ conn[c] = "joined"
    /\ conn' = [conn EXCEPT ![c] = "closed"]
    /\ Done(close(Begin, c))

Next ==
    \E c \in 1..MaxConn :
        \/ JoinRoom(c, NameOf(c))
        \/ \E ready \in BOOLEAN : PreReady(c, ready)
        \/ \E payload \in Payloads(room, c) : Submit(c, payload)
        \/ \E pickRound \in {0, room.round}, dealerId \in 1..MaxConn :
                DealerPickChoice(c, pickRound, dealerId)
        \/ \E round \in 0..MaxRound : NextReady(c, round)
        \/ Close(c)

Spec == Init /\ [][Next]_vars

\* Connection c is a participant of the open round and has yet to submit: its
\* submit with a valid arrangement of its nine cards is accepted.
NeedsSubmit(c) ==
    /\ room.registered /\ room.started /\ ~room.revealed
    /\ Has(room.clients, c) /\ Has(room.dealt, c)
    /\ ~HasSub(room.submissions, c)

\* Connection c is the controller of the pending pick of the open round.
NeedsPick(c) ==
    /\ room.registered /\ room.started /\ ~room.revealed
    /\ Has(room.clients, c)
    /\ room.dealerPick # NoPick /\ room.dealerPick.controllerId = c

\* The pick of controller c is taken: the round is revealed with it.
PickTaken(c) == NeedsPick(c) /\ room'.registered /\ room'.revealed

\* The room specification with clients that do not stall: no connection stays
\* for ever a participant that has yet to submit (it submits, or it closes), and
\* a connection that is the controller again and again has a pick taken.
Responsive ==
    \A c \in 1..MaxConn :
        /\ []<>~NeedsSubmit(c)
        /\ <>[]~NeedsPick(c) \/ []<><<PickTaken(c)>>_vars

SpecLive == Init /\ [][Next]_vars /\ Responsive

(***************************************************************************)
(* The room specification with the join handler in its two parts: the      *)
(* handler of create-room/join-room takes the room object (getRoom) and    *)
(* awaits ensureRoomRecordLoaded(room).  On the object it has just made    *)
(* (recordLoaded false) the lookup reads the record store, and other       *)
(* events of the room are handled before the handler goes on; on a loaded  *)
(* object it goes on at once.  conn[c] then also tells where the handler   *)
(* of c is: "loading" (awaiting, on the registered object),                *)
(* "loadingOrphan" (awaiting, on an object that cleanRoom has removed from *)
(* rooms), "loadingClosed" (awaiting on the registered object, and the     *)
(* close of c was handled meanwhile: ws.roomId was null, so it returned),  *)
(* "stray" (joined an object that is not in rooms), "ghost" (joined the    *)
(* registered object after its close was handled).  A handler that awaits  *)
(* on a removed object with its connection closed has no effect left on    *)
(* the rooms or on a client: its connection is "closed".                   *)
(***************************************************************************)

\* The connection states after a handler of connection c that leaves c in
\* state st and the room as R: a removed room object leaves its loaders with
\* an orphan.
ConnAfter(c, st, R) ==
    [x \in 1..MaxConn |->
        IF x = c THEN st
        ELSE IF ~R.registered /\ conn[x] = "loading" THEN "loadingOrphan"
        ELSE IF ~R.registered /\ conn[x] = "loadingClosed" THEN "closed"
        ELSE conn[x]]

\* create-room/join-room up to the await, on a room id without object: getRoom
\* registers a new object and the record lookup starts.
JoinBegin(c) ==
    /\ conn[c] = "new"
    /\ \A x \in 1..(c - 1) : NameOf(x) = NameOf(c) => conn[x] = "closed"
    /\ ~room.registered
    /\ room' = getRoom
    /\ conn' = [conn EXCEPT ![c] = "loading"]
    /\ UNCHANGED <<subs, override, out, revealLog, input, result>>

\* create-room/join-room on a loaded room object: nothing comes in between.
JoinLoaded(c) ==
    /\ room.registered
    /\ JoinRoom(c, NameOf(c))

\* The rest of the join handler, after the await.
JoinResume(c) ==
    \/ /\ conn[c] = "loading"
       /\ conn' = [conn EXCEPT ![c] = "joined"]
       /\ Done(joinRoom(Begin, c, NameOf(c)))
    \/ /\ conn[c] = "loadingClosed"
       /\ conn' = [conn EXCEPT ![c] = "ghost"]
       /\ Done(joinRoom(Begin, c, NameOf(c)))
    \/ /\ conn[c] = "loadingOrphan"
       /\ conn' = [conn EXCEPT ![c] = "stray"]
       /\ UNCHANGED <<subs, override, out, room, revealLog, input, result>>

\* ws.on('close') while the join handler awaits: ws.roomId is null, it returns.
CloseLoading(c) ==
    /\ conn[c] \in {"loading", "loadingOrphan"}
    /\ conn' = [conn EXCEPT ![c] = IF conn[c] = "loading" THEN "loadingClosed"
                                   ELSE "closed"]
    /\ UNCHANGED <<subs, override, out, room, revealLog, input, result>>

\* ws.on('close') of a connection whose join handler has set ws.roomId: it works
\* on rooms.get(ws.roomId), the registered object, if there is one.
CloseJoined(c) ==
    /\ conn[c] \in {"joined", "stray"}
    /\ IF room.registered
       THEN /\ Done(close(Begin, c))
            /\ conn' = ConnAfter(c, "closed", room')
       ELSE /\ conn' = [conn EXCEPT ![c] = "closed"]
            /\ UNCHANGED <<subs, override, out, room, revealLog, input, result>>

NextAsync ==
    \E c \in 1..MaxConn :
        \/ JoinBegin(c)
        \/ JoinLoaded(c)
        \/ JoinResume(c)
        \/ CloseLoading(c)
        \/ CloseJoined(c)
        \/ \E ready \in BOOLEAN : PreReady(c, ready)
        \/ \E payload \in Payloads(room, c) : Submit(c, payload)
        \/ \E pickRound \in {0, room.round}, dealerId \in 1..MaxConn :
                DealerPickChoice(c, pickRound, dealerId)
        \/ \E round \in 0..MaxRound : NextReady(c, round)

SpecAsync == Init /\ [][NextAsync]_vars

(***************************************************************************)
(* The call specification: one call of eval2, eval3, detectFoul or         *)
(* validateSpecial (score.js) or of the hand-out of dealRound (server.js), *)
(* on arguments drawn from the sets below.                                 *)
(***************************************************************************)
MaxSeats == 7       \* connected seats 1..MaxSeats that one deal hands cards to

\* The cards the evaluated hands are made of: low, high and middle ranks in three
\* suits and both jokers, in no particular order.
EvalCards ==
    <<Card(14, "S"), Card(2, "H"), BJ, Card(13, "D"), Card(3, "S"), Card(12, "H"),
      Card(4, "D"), Card(2, "S"), Card(14, "H"), Card(3, "D"), SJ, Card(13, "S"),
      Card(4, "H"), Card(12, "D"), Card(2, "D"), Card(13, "H"), Card(3, "H"),
      Card(12, "S"), Card(4, "S"), Card(14, "D")>>

\* Two different cards, in both orders.
Hands2 ==
    {p \in {<<EvalCards[i], EvalCards[j]>> : i, j \in 1..Len(EvalCards)} : p[1] # p[2]}

\* Three different cards, in the order of EvalCards.
Hands3 ==
    {<<EvalCards[q[1]], EvalCards[q[2]], EvalCards[q[3]]>> :
        q \in {x \in (1..Len(EvalCards)) \X (1..Len(EvalCards)) \X (1..Len(EvalCards)) :
                 x[1] < x[2] /\ x[2] < x[3]}}

\* Sections to arrange: high cards, pairs, a joker, and a head with an empty slot
FoulHeads ==
    {<<Card(12, "H"), Card(4, "D")>>, <<Card(14, "S"), Card(13, "S")>>,
     <<Card(2, "S"), Card(2, "H")>>, <<Card(13, "C"), Card(13, "H")>>,
     <<SJ, Card(14, "D")>>, <<Card(3, "C"), NoCard>>}

\* ... high cards (one with the ranks of a head and a third card), pairs, a
\* straight, three-of-kind, a straight-flush and a joker between 4 and 6 of clubs.
FoulThrees ==
    {<<Card(13, "D"), Card(9, "C"), Card(4, "S")>>,
     <<Card(12, "C"), Card(4, "C"), Card(3, "D")>>,
     <<Card(14, "C"), Card(11, "C"), Card(7, "H")>>,
     <<Card(2, "C"), Card(2, "D"), Card(5, "S")>>,
     <<Card(13, "S"), Card(13, "D"), Card(2, "D")>>,
     <<Card(10, "S"), Card(11, "H"), Card(12, "D")>>,
     <<Card(7, "S"), Card(7, "H"), Card(7, "D")>>,
     <<Card(8, "D"), Card(9, "D"), Card(10, "D")>>,
     <<Card(4, "C"), BJ, Card(6, "C")>>}

Arrangements ==
    {a \in FoulHeads \X FoulThrees \X FoulThrees :
        /\ SetOf(a[1]) \cap SetOf(a[2]) = {}
        /\ SetOf(a[1]) \cap SetOf(a[3]) = {}
        /\ SetOf(a[2]) \cap SetOf(a[3]) = {}}

\* Hands to report on.  The eight arranged cards of HandRed, a black dealer card:
HandRedBlackDealer ==
    Sub(Card(9, "S"), <<Card(3, "D"), Card(7, "H")>>,
        <<Card(8, "H"), Card(10, "D"), Card(13, "D")>>,
        <<Card(14, "D"), Card(12, "H"), Card(2, "H")>>, "allRed")

\* eight black cards, a red dealer card
HandBlackRedDealer ==
    Sub(Card(5, "H"), <<Card(6, "C"), Card(7, "S")>>,
        <<Card(8, "C"), Card(9, "S"), Card(10, "S")>>,
        <<Card(11, "S"), Card(12, "S"), Card(13, "C")>>, "allBlack")

\* nine black cards
HandBlack ==
    Sub(Card(5, "S"), <<Card(6, "C"), Card(7, "S")>>,
        <<Card(8, "C"), Card(9, "S"), Card(10, "S")>>,
        <<Card(11, "S"), Card(12, "S"), Card(13, "C")>>, "allBlack")

\* nine ranks, no three of them in a row, no joker
HandNoHand ==
    Sub(Card(14, "S"), <<Card(2, "H"), Card(4, "D")>>,
        <<Card(5, "C"), Card(7, "S"), Card(8, "H")>>,
        <<Card(10, "D"), Card(11, "C"), Card(13, "S")>>, "noHand")

\* eight ranks with no three in a row; the dealer card is a king next to J, Q, ...
HandNoHandRun ==
    Sub(Card(13, "S"), <<Card(2, "H"), Card(3, "D")>>,
        <<Card(5, "C"), Card(6, "S"), Card(8, "H")>>,
        <<Card(9, "D"), Card(11, "C"), Card(12, "S")>>, "noHand")

\* ... a second 2, ...
HandNoHandPair ==
    Sub(Card(2, "C"), <<Card(2, "H"), Card(3, "D")>>,
        <<Card(5, "C"), Card(6, "S"), Card(8, "H")>>,
        <<Card(9, "D"), Card(11, "C"), Card(12, "S")>>, "noHand")

\* ... or a joker.
HandNoHandJoker ==
    Sub(BJ, <<Card(2, "H"), Card(3, "D")>>,
        <<Card(5, "C"), Card(6, "S"), Card(8, "H")>>,
        <<Card(9, "D"), Card(11, "C"), Card(12, "S")>>, "noHand")

\* head A-2, mid a straight, tail a straight-flush
HandSnake ==
    Sub(Card(9, "H"), <<Card(14, "C"), Card(2, "D")>>,
        <<Card(5, "S"), Card(6, "H"), Card(7, "D")>>,
        <<Card(10, "C"), Card(11, "C"), Card(12, "C")>>, "threeSnake")

\* head 3-4, mid three sevens, tail a straight
HandSnakeTrips ==
    Sub(Card(9, "H"), <<Card(3, "C"), Card(4, "D")>>,
        <<Card(7, "S"), Card(7, "H"), Card(7, "D")>>,
        <<Card(10, "C"), Card(11, "D"), Card(12, "C")>>, "threeSnake")

\* head a joker and a nine, mid and tail straights
HandSnakeJoker ==
    Sub(Card(2, "H"), <<SJ, Card(9, "D")>>,
        <<Card(5, "S"), Card(6, "H"), Card(7, "D")>>,
        <<Card(10, "C"), Card(11, "D"), Card(12, "C")>>, "threeSnake")

\* head 3-9, mid and tail straights
HandSnakeGap ==
    Sub(Card(2, "H"), <<Card(3, "S"), Card(9, "D")>>,
        <<Card(5, "S"), Card(6, "H"), Card(7, "D")>>,
        <<Card(10, "C"), Card(11, "D"), Card(12, "C")>>, "threeSnake")

SpecialHands ==
    {HandRedBlackDealer, HandBlackRedDealer, HandBlack, HandNoHand, HandNoHandRun,
     HandNoHandPair, HandNoHandJoker, HandSnake, HandSnakeTrips, HandSnakeJoker,
     HandSnakeGap, HandRed, HandRedFoul, HandBadReport, HandHighs, HandStrong,
     HandFlushes, HandFourKind, HandWild}

\* The report codes a client may send: those of bonusMap, none, and others.
ReportCodes == DOMAIN bonusMap \cup {"none", "", "royal"}

CallInput(kind, sub, ids) == [kind |-> kind, sub |-> sub, ids |-> ids]

Inputs ==
    {CallInput("eval2", Sub(NoCard, h, <<>>, <<>>, ""), <<>>) : h \in Hands2}
    \cup {CallInput("eval3", Sub(NoCard, <<>>, h, <<>>, ""), <<>>) : h \in Hands3}
    \cup {CallInput("detectFoul", Sub(NoCard, a[1], a[2], a[3], ""), <<>>) : a \in Arrangements}
    \cup {CallInput("validateSpecial", [sub EXCEPT !.report = code], <<>>) :
            sub \in SpecialHands, code \in ReportCodes}
    \cup {CallInput("deal", Sub(NoCard, <<>>, <<>>, <<>>, ""), [i \in 1..n |-> i]) :
            n \in 1..MaxSeats}

InitCall ==
    /\ input \in Inputs
    /\ result = NoResult
    /\ ScoreUnused
    /\ RoomUnused

Returns(kind, r) ==
    /\ input.kind = kind
    /\ ~result.called
    /\ result' = [r EXCEPT !.called = TRUE]
    /\ UNCHANGED <<input, subs, override, out, room, conn, revealLog>>

Eval2 == Returns("eval2", [NoResult EXCEPT !.eval = eval2(input.sub.head)])

Eval3 == Returns("eval3", [NoResult EXCEPT !.eval = eval3(input.sub.mid)])

DetectFoul ==
    Returns("detectFoul",
            [NoResult EXCEPT !.foul = detectFoul(input.sub.head, input.sub.mid, input.sub.tail)])

\* validateSpecial as computeRoundResult calls it for one submission
ValidateSpecial ==
    Returns("validateSpecial",
            [NoResult EXCEPT !.special =
                validateSpecial(input.sub.report, all9Of(input.sub), input.sub,
                                evalsOf(input.sub))])

\* The hand-out of dealRound to the connected seats input.ids from a shuffled deck
Deal(deck) == Returns("deal", [NoResult EXCEPT !.dealt = dealHands(input.ids, deck)])

NextCall ==
    \/ Eval2
    \/ Eval3
    \/ DetectFoul
    \/ ValidateSpecial
    \/ \E deck \in Decks : Deal(deck)

SpecCall == InitCall /\ [][NextCall]_vars

(***************************************************************************)
(* The save specification: one call of the worker's fetch                  *)
(* (src/unnamed/part_000) on any request, GitHub answering each GET and    *)
(* PUT of the contents API with any status.  Every await of a GitHub       *)
(* request is a step.                                                      *)
(***************************************************************************)
MaxAttempts == 2    \* for (let attempt = 0; attempt < 2; attempt++)

NoSha == "null"

\* the request and the environment of the call
SaveRequests ==
    [method : {"OPTIONS", "POST", "GET"},
     pathname : {"/save", "/other"},
     keyOk : BOOLEAN,            \* no PERSIST_SECRET, or X-Persist-Key equals it
     jsonOk : BOOLEAN,           \* request.json() does not throw
     roomId : {"DAY", "NIGHT", "X"},
     recordOk : BOOLEAN,         \* body.record is an object
     small : BOOLEAN,            \* JSON.stringify(record).length <= 300000
     configured : BOOLEAN]       \* GH_OWNER, GH_REPO and GITHUB_TOKEN are set

GetStatuses == {200, 404, 500}

PutStatuses == {200, 201, 409, 422, 500}

Shas == {NoSha, "sha1"}         \* getJson?.sha || null

Response(status, body) == [status |-> status, body |-> body]

NoResponse == Response(0, "")

\* The call at the await named pc ("check": not begun, "done": responded), in
\* pass `attempt` of the loop, with the GETs and PUTs made so far.
SaveCall(pc, attempt, currentSha, gets, puts, response) ==
    [pc |-> pc, attempt |-> attempt, currentSha |-> currentSha,
     gets |-> gets, puts |-> puts, response |-> response]

Responded(r, status, body) == [r EXCEPT !.pc = "done", !.response = Response(status, body)]

InitSave ==
    /\ input \in SaveRequests
    /\ result = SaveCall("check", 0, NoSha, <<>>, <<>>, NoResponse)
    /\ ScoreUnused
    /\ RoomUnused

\* lines 38-39
normalizeRoomId(rawRoomId) == IF rawRoomId \in {"NIGHT", "NIG"} THEN "MON" ELSE rawRoomId

\* lines 3-67: the checks before the first GitHub request
Validate ==
    /\ result.pc = "check"
    /\ result' =
         IF input.method = "OPTIONS" THEN Responded(result, 204, "")
         ELSE IF input.pathname # "/save" THEN Responded(result, 404, "Not found")
         ELSE IF input.method # "POST" THEN Responded(result, 405, "Method not allowed")
         ELSE IF ~input.keyOk THEN Responded(result, 401, "Unauthorized")
         ELSE IF ~input.jsonOk THEN Responded(result, 400, "Bad JSON")
         ELSE IF normalizeRoomId(input.roomId) \notin {"DAY", "MON"}
         THEN Responded(result, 400, "Invalid roomId")
         ELSE IF ~input.recordOk THEN Responded(result, 400, "Invalid record")
         ELSE IF ~input.small THEN Responded(result, 413, "Record too large")
         ELSE IF ~input.configured THEN Responded(result, 500, "Worker not configured")
         ELSE [result EXCEPT !.pc = "get"]
    /\ UNCHANGED <<input, subs, override, out, room, conn, revealLog>>

\* lines 83-93: the GET of the current file answers with status, and with sha in
\* its JSON
GetCurrent(status, sha) ==
    /\ result.pc = "get"
    /\ result.attempt < MaxAttempts
    /\ \E r \in {[result EXCEPT !.gets = Append(@, [attempt |-> result.attempt,
                                                     status |-> status])]} :
         result' =
            IF status = 404
            THEN \* currentSha = null; break: the statement after the loop
                 Responded([r EXCEPT !.currentSha = NoSha], 500, "Unexpected error")
            ELSE IF status \notin 200..299 THEN Responded(r, 502, "GitHub GET failed")
            ELSE [r EXCEPT !.currentSha = sha, !.pc = "put"]
    /\ UNCHANGED <<input, subs, override, out, room, conn, revealLog>>

\* lines 96-124: the PUT answers with status
PutUpdate(status) ==
    /\ result.pc = "put"
    /\ \E r \in {[result EXCEPT !.puts = Append(@, [attempt |-> result.attempt,
                                                     sha |-> result.currentSha,
                                                     status |-> status])]} :
         result' =
            IF status \in 200..299 THEN Responded(r, 200, "ok")
            ELSE IF status \in {409, 422} /\ r.attempt = 0
            THEN [r EXCEPT !.attempt = @ + 1, !.pc = "get"]
            ELSE Responded(r, 502, "GitHub PUT failed")
    /\ UNCHANGED <<input, subs, override, out, room, conn, revealLog>>

NextSave ==
    \/ Validate
    \/ \E status \in GetStatuses, sha \in Shas : GetCurrent(status, sha)
    \/ \E status \in PutStatuses : PutUpdate(status)

SpecSave == InitSave /\ [][NextSave]_vars

(***************************************************************************)
(* Properties of the settlement specification SpecScore.  `out` is what    *)
(* computeRoundResult returned for `subs` and `override`.                  *)
(***************************************************************************)
Returned == out # NoOut /\ out.err = ""

DealerSubmitted == Returned /\ out.dealerId \in IdsOf(subs)

NonDealers == IdsOf(subs) \ {out.dealerId}

TotalOf(id) == out.results[id].total

PerOf(id) == out.results[id].per

NoPer == [head |-> 0, mid |-> 0, tail |-> 0]

CodeOf(id) == reportCodeOf(SubOf(subs, id))

\* The report of id is claimed and validates with a positive bonus.
ValidReport(id) == reportOk(SubOf(subs, id), scoreMaps(subs)[id].report)

BonusOf(id) == bonusMap[CodeOf(id)]

Fouled(id) == scoreMaps(subs)[id].foul.foul

EvalOf(id) == evalsOf(SubOf(subs, id))

\* id neither fouled nor claimed a report.
Plain(id) == ~Fouled(id) /\ CodeOf(id) = "none"

\* C1: whenever computeRoundResult returns and the dealer is one of the
\* submitters, the dealer's total is minus the sum of the non-dealers' totals.
C1_ZeroSum ==
    DealerSubmitted =>
        TotalOf(out.dealerId) = -SetSum(NonDealers, [id \in NonDealers |-> TotalOf(id)])

\* Three players, a dealer chosen by dealerOverride whose report validates, and a
\* non-dealer whose report validates too.
C1_Witness ==
    /\ DealerSubmitted
    /\ Len(subs) = 3
    /\ override # NoId
    /\ ValidReport(out.dealerId)
    /\ \E id \in NonDealers : ValidReport(id)
    /\ TotalOf(out.dealerId) # 0

\* C3: a non-dealer whose claimed report validates gets its bonus as total and 0
\* in every section, fouled or not, whatever the dealer holds.
C3_ReportPaysBonusOnly ==
    Returned =>
        \A id \in NonDealers :
            ValidReport(id) => TotalOf(id) = BonusOf(id) /\ PerOf(id) = NoPer

\* A fouled non-dealer with a validated report, against a dealer without one.
C3_Witness ==
    /\ DealerSubmitted
    /\ ~ValidReport(out.dealerId)
    /\ \E id \in NonDealers : ValidReport(id) /\ Fouled(id) /\ TotalOf(id) = 5

\* C4: when the dealer's report does not validate, a non-dealer without a
\* validated report who fouled or whose claimed report failed loses the dealer's
\* three win-values, however the sections compare.
C4_WulongLosesDealerWinValues ==
    (DealerSubmitted /\ ~ValidReport(out.dealerId)) =>
        \A id \in NonDealers :
            (~ValidReport(id) /\ (Fouled(id) \/ CodeOf(id) # "none")) =>
                LET d == EvalOf(out.dealerId)
                    h == IF d.head.name = "pair" THEN d.head.t[1] ELSE 1
                    m == IF d.mid.name = "straightFlush" THEN 10
                         ELSE IF d.mid.name = "trips" THEN 6 ELSE 1
                    t == IF d.tail.name = "straightFlush" THEN 5
                         ELSE IF d.tail.name = "trips" THEN 3 ELSE 1
                IN  /\ PerOf(id) = [head |-> -h, mid |-> -m, tail |-> -t]
                    /\ TotalOf(id) = -(h + m + t)

\* A non-dealer who fouled with a head that beats the dealer's, and another whose
\* claimed report failed without a foul.
C4_Witness ==
    /\ DealerSubmitted
    /\ ~ValidReport(out.dealerId)
    /\ \E a, b \in NonDealers :
            /\ Fouled(a) /\ CodeOf(a) = "none"
            /\ compareEval(EvalOf(a).head, EvalOf(out.dealerId).head) > 0
            /\ ~Fouled(b) /\ CodeOf(b) # "none" /\ ~ValidReport(b)

\* C5: between a non-dealer and a dealer who both neither fouled nor reported,
\* each section is scored on its own: the non-dealer gets its own win-value when
\* its section is strictly better, and loses the dealer's win-value when it is
\* equal or worse.
C5_SectionsScoredIndependently ==
    (DealerSubmitted /\ Plain(out.dealerId)) =>
        \A id \in NonDealers :
            Plain(id) =>
                LET p == EvalOf(id)
                    d == EvalOf(out.dealerId)
                IN  /\ PerOf(id).head =
                            IF compareEval(p.head, d.head) > 0 THEN headWinPoints(p.head)
                            ELSE -headWinPoints(d.head)
                    /\ PerOf(id).mid =
                            IF compareEval(p.mid, d.mid) > 0 THEN midWinPoints(p.mid)
                            ELSE -midWinPoints(d.mid)
                    /\ PerOf(id).tail =
                            IF compareEval(p.tail, d.tail) > 0 THEN tailWinPoints(p.tail)
                            ELSE -tailWinPoints(d.tail)
                    /\ TotalOf(id) = PerOf(id).head + PerOf(id).mid + PerOf(id).tail

\* A plain non-dealer whose head equals the plain dealer's, and one who loses the
\* head and wins the mid.
C5_Witness ==
    /\ DealerSubmitted
    /\ Plain(out.dealerId)
    /\ \E a, b \in NonDealers :
            /\ Plain(a) /\ Plain(b)
            /\ compareEval(EvalOf(a).head, EvalOf(out.dealerId).head) = 0
            /\ PerOf(a).head < 0
            /\ PerOf(b).head < 0 /\ PerOf(b).mid > 0

\* The win-values C6 states, for the evaluations of every submitted arrangement.
WinValuesAsStated ==
    \A id \in IdsOf(subs) :
        LET e == EvalOf(id)
        IN  /\ headWinPoints(e.head) = (IF e.head.cat = 1 THEN e.head.t[1] ELSE 1)
            /\ headWinPoints(e.head) \in 1..14
            /\ midWinPoints(e.mid) = (IF e.mid.name = "straightFlush" THEN 10
                                      ELSE IF e.mid.name = "trips" THEN 6 ELSE 1)
            /\ tailWinPoints(e.tail) = (IF e.tail.name = "straightFlush" THEN 5
                                        ELSE IF e.tail.name = "trips" THEN 3 ELSE 1)

\* A, not the dealer, holds a pair of 2s in the head and the dealer a high card.
PairOfTwosAgainstHighCard(A) ==
    /\ A \in NonDealers
    /\ EvalOf(A).head.cat = 1 /\ EvalOf(A).head.t[1] = 2
    /\ EvalOf(out.dealerId).head.cat = 0

\* C6 as stated: the win-values, and in every two-player round where A's head is
\* a pair of 2s and the dealer's head a high card, A scores +2 in the head and
\* the dealer's total carries -2 for it.
C6_AsStated ==
    /\ WinValuesAsStated
    /\ (DealerSubmitted /\ Len(subs) = 2) =>
            \A A \in IdsOf(subs) :
                PairOfTwosAgainstHighCard(A) =>
                    /\ PerOf(A).head = 2
                    /\ TotalOf(out.dealerId) = -(2 + PerOf(A).mid + PerOf(A).tail)

\* C6, amended: the win-values, and the +2 of the scenario when neither A nor the
\* dealer fouled or claimed a report (a pair of 2s above a high-card mid is a
\* foul, and A then loses the dealer's head win-value instead).
C6_WinValues ==
    /\ WinValuesAsStated
    /\ (DealerSubmitted /\ Len(subs) = 2) =>
            \A A \in IdsOf(subs) :
                (PairOfTwosAgainstHighCard(A) /\ Plain(A) /\ Plain(out.dealerId)) =>
                    /\ PerOf(A).head = 2
                    /\ TotalOf(out.dealerId) = -(2 + PerOf(A).mid + PerOf(A).tail)

\* The scenario without a foul: a pair of 2s under a pair in the mid, against a
\* dealer's high-card head.
C6_Witness ==
    /\ DealerSubmitted
    /\ Len(subs) = 2
    /\ \E A \in IdsOf(subs) :
            /\ PairOfTwosAgainstHighCard(A) /\ Plain(A) /\ Plain(out.dealerId)
            /\ PerOf(A).head = 2

\* C7: when the dealer's report validates with bonus B, a non-dealer without a
\* validated report gets -B, a non-dealer with one gets its own bonus, and every
\* player's sections score 0.
C7_DealerReportRound ==
    (DealerSubmitted /\ ValidReport(out.dealerId)) =>
        /\ \A id \in NonDealers :
                TotalOf(id) = IF ValidReport(id) THEN BonusOf(id)
                              ELSE -BonusOf(out.dealerId)
        /\ \A id \in IdsOf(subs) : PerOf(id) = NoPer

\* A dealer with a validated report, a fouled non-dealer without a report, and a
\* non-dealer with a validated report.
C7_Witness ==
    /\ DealerSubmitted
    /\ ValidReport(out.dealerId)
    /\ \E a, b \in NonDealers :
            /\ ValidReport(a)
            /\ Fouled(b) /\ CodeOf(b) = "none" /\ TotalOf(b) = -BonusOf(out.dealerId)

\* The dealer's report validates and so does some non-dealer's.
BothSidesReport ==
    /\ DealerSubmitted
    /\ ValidReport(out.dealerId)
    /\ \E id \in NonDealers : ValidReport(id)

\* C8 as stated: the dealer's total is B times the number of non-dealers without
\* a validated report.
C8_AsStated ==
    BothSidesReport =>
        TotalOf(out.dealerId) =
            BonusOf(out.dealerId) * Cardinality({id \in NonDealers : ~ValidReport(id)})

\* C8, amended: the dealer's total is B times the number of non-dealers without a
\* validated report, minus the bonuses of the non-dealers with one, which the
\* dealer pays.
C8_DealerPaysReporters ==
    BothSidesReport =>
        LET reporters == {id \in NonDealers : ValidReport(id)}
        IN  TotalOf(out.dealerId) =
                BonusOf(out.dealerId) * Cardinality(NonDealers \ reporters)
                    - SetSum(reporters, [id \in reporters |-> BonusOf(id)])

\* Three players: the dealer collects from one non-dealer and pays the other.
C8_Witness ==
    /\ BothSidesReport
    /\ Len(subs) = 3
    /\ \E id \in NonDealers : ~ValidReport(id)
    /\ TotalOf(out.dealerId) = 5

\* C9 as stated: with no dealerOverride, no submitter's dealer-selection card has
\* a higher raw rank than the dealer's, nor the same rank and a higher suit, so
\* the big joker (16) is chosen over the small joker (15).
C9_AsStated ==
    (Returned /\ override = NoId) =>
        \A id \in IdsOf(subs) :
            LET mine == SubOf(subs, out.dealerId).dealerCard
                theirs == SubOf(subs, id).dealerCard
                suitOrder == [S |-> 4, H |-> 3, D |-> 2, C |-> 1, J |-> 5]
            IN  \/ theirs.r < mine.r
                \/ theirs.r = mine.r /\ suitOrder[theirs.s] <= suitOrder[mine.s]

\* The submissions in ascending order of id.
SortedById(s) ==
    LET ids == Sorted(IdsOf(s))
    IN  [i \in 1..Len(ids) |-> [id |-> ids[i], sub |-> SubOf(s, ids[i])]]

\* C10: what computeRoundResult returns or throws for the submissions in the
\* order they were enumerated is what it returns or throws for the same
\* submissions and dealerOverride enumerated in ascending order of id.
C10_OrderIndependent ==
    out # NoOut => out = computeRoundResult(SortedById(subs), override)

\* Submissions enumerated in descending id order, two of them with equal
\* dealer-selection cards, and no dealerOverride.
C10_Witness ==
    /\ Returned
    /\ override = NoId
    /\ Len(subs) >= 2
    /\ subs[1].id > subs[2].id
    /\ compareSelectCard(subs[1].sub.dealerCard, subs[2].sub.dealerCard) = 0

(***************************************************************************)
(* Properties of the room specification Spec.  revealLog holds one entry   *)
(* per reveal broadcast since the room was created.                        *)
(***************************************************************************)
\* C2 as stated: each round is settled at most once, so no two reveals carry the
\* same round number.
C2_AsStated ==
    \A i, j \in 1..Len(revealLog) :
        i # j => revealLog[i].round # revealLog[j].round


(***************************************************************************)
(* Properties of the call specification SpecCall.  `result` is what the    *)
(* function of input.kind returned for `input`.                            *)
(***************************************************************************)
Called(kind) == input.kind = kind /\ result.called

\* What the sections are ordered by: the category, then the tiebreak values.
StrengthKey(e) == <<e.cat, At0(e.t, 1), At0(e.t, 2), At0(e.t, 3)>>

Stronger(a, b) ==
    \E i \in 1..4 :
        /\ StrengthKey(a)[i] > StrengthKey(b)[i]
        /\ \A j \in 1..(i - 1) : StrengthKey(a)[j] = StrengthKey(b)[j]

AllFilled == NoCard \notin SetOf(input.sub.head \o input.sub.mid \o input.sub.tail)

\* C11: for an arrangement with all eight slots filled, detectFoul returns foul
\* exactly when the head is stronger than the mid or the mid stronger than the
\* tail, by category first and then by the tiebreak values in order.
C11_FoulIffStrengthOrder ==
    (Called("detectFoul") /\ AllFilled) =>
        (result.foul.foul <=>
            \/ Stronger(eval2(input.sub.head), eval3(input.sub.mid))
            \/ Stronger(eval3(input.sub.mid), eval3(input.sub.tail)))

\* a foul decided by the tiebreak values of a mid and a tail of one category
C11_Witness ==
    /\ Called("detectFoul") /\ AllFilled
    /\ result.foul.foul
    /\ eval3(input.sub.mid).cat = eval3(input.sub.tail).cat
    /\ ~Stronger(eval2(input.sub.head), eval3(input.sub.mid))


\* The rule table of three cards without a joker.
IsRun(ranks) ==
    /\ Cardinality(ranks) = 3
    /\ \/ SetMax(ranks) - SetMin(ranks) = 2
       \/ ranks = {2, 3, 14}

SameSuit(cards) == Cardinality({cards[i].s : i \in 1..Len(cards)}) = 1

TableCategory(cards) ==
    IF IsRun(RankSet(cards)) /\ SameSuit(cards) THEN 5
    ELSE IF Cardinality(RankSet(cards)) = 1 THEN 4
    ELSE IF IsRun(RankSet(cards)) THEN 3
    ELSE IF Cardinality(RankSet(cards)) = 2 THEN 1
    ELSE 0

\* C12: for three cards without a joker, eval3 assigns the category of the closed
\* table: straight-flush 5 for a run in one suit, else three-of-kind 4, else
\* straight 3 for a run, else pair 1, else high-card 0; a run is three
\* consecutive ranks or 2-3-A.
C12_CategoryTable ==
    (Called("eval3") /\ Jokers(input.sub.mid) = 0) =>
        result.eval.cat = TableCategory(input.sub.mid)

\* 3-4-A of one suit is a high card
C12_Witness ==
    /\ Called("eval3")
    /\ RankSet(input.sub.mid) = {3, 4, 14}
    /\ SameSuit(input.sub.mid)
    /\ result.eval.cat = 0


\* C13: eval3 gives the run 2-3-A, straight or straight-flush, the tiebreak value
\* 15 and every other run its highest rank, Q-K-A 14.
C13_AsStated ==
    (Called("eval3") /\ Jokers(input.sub.mid) = 0 /\ IsRun(RankSet(input.sub.mid))) =>
        result.eval.t =
            <<IF RankSet(input.sub.mid) = {2, 3, 14} THEN 15
              ELSE SetMax(RankSet(input.sub.mid))>>


\* The hand of an eval2 or eval3 call, and its completions: each joker replaced
\* by a standard card that is not a real card of the hand, two jokers by two
\* different cards.
EvalCalled == Called("eval2") \/ Called("eval3")

EvalHand == IF input.kind = "eval2" THEN input.sub.head ELSE input.sub.mid

Completions(cards) ==
    LET real == SelectSeq(cards, LAMBDA c : ~IsJoker(c))
        free == Std52 \ SetOf(real)
    IN  IF Len(real) = Len(cards) - 1 THEN {real \o <<x>> : x \in free}
        ELSE {real \o <<x, y>> : x, y \in free} \ {real \o <<x, x>> : x \in free}

JokerFree(cards) == IF Len(cards) = 2 THEN eval2NoJoker(cards) ELSE eval3NoJoker(cards)

NineNonJ == NonJ(all9Of(input.sub))

\* C15: validateSpecial accepts 'allRed' (resp. 'allBlack') only if every
\* non-joker card of all nine cards, the dealer-selection card included, is a
\* heart or diamond (resp. a spade or club).
C15_AsStated ==
    (Called("validateSpecial") /\ result.special.ok) =>
        /\ input.sub.report = "allRed" => \A i \in 1..Len(NineNonJ) : isRed(NineNonJ[i].s)
        /\ input.sub.report = "allBlack" => \A i \in 1..Len(NineNonJ) : isBlack(NineNonJ[i].s)


\* The nine cards hold no joker, no two cards of one rank and no three cards
\* that evaluate above high-card.
NineNoHand ==
    LET nine == all9Of(input.sub)
    IN  /\ Jokers(nine) = 0
        /\ Cardinality(RankSet(nine)) = Len(nine)
        /\ \A i, j, k \in 1..Len(nine) :
              (i < j /\ j < k) => eval3NoJoker(<<nine[i], nine[j], nine[k]>>).cat = 0

\* C16: validateSpecial accepts 'noHand' exactly when the player's nine cards
\* hold no joker, no two cards of equal rank and no 3-card subset that evaluates
\* above high-card.
C16_AsStated ==
    (Called("validateSpecial") /\ input.sub.report = "noHand") =>
        (result.special.ok <=> NineNoHand)

\* C17: validateSpecial accepts 'threeSnake' only if the head can be two
\* consecutive ranks (A-2 counts, a joker stands for any card) and mid and tail
\* each evaluate to a straight (3) or a straight-flush (5).
C17_AsStated ==
    (Called("validateSpecial") /\ input.sub.report = "threeSnake" /\ result.special.ok) =>
        /\ \/ Jokers(input.sub.head) >= 1
           \/ IsRun(RankSet(input.sub.head) \cup {SetMax(RankSet(input.sub.head)) + 1})
           \/ RankSet(input.sub.head) = {2, 14}
        /\ eval3(input.sub.mid).cat \in {3, 5}
        /\ eval3(input.sub.tail).cat \in {3, 5}


\* C18: after a deal to any number of connected seats, every seat dealt into the
\* round holds exactly nine cards, the hands of different seats are disjoint and
\* every card is a card of the one 54-card deck, dealt once.
C18_AsStated ==
    Called("deal") =>
        /\ DOMAIN result.dealt = SetOf(input.ids)
        /\ \A id \in DOMAIN result.dealt :
              /\ Len(result.dealt[id]) = 9
              /\ Cardinality(SetOf(result.dealt[id])) = 9
              /\ SetOf(result.dealt[id]) \subseteq makeDeck54
        /\ \A a, b \in DOMAIN result.dealt :
              a # b => SetOf(result.dealt[a]) \cap SetOf(result.dealt[b]) = {}


(***************************************************************************)
(* Properties of the room specification Spec: the start of the room.       *)
(***************************************************************************)
ConnectedSeats(R) == SetOf(Connected(R))

\* No handler leaves a room that has not started with every connected seat pre-ready.
StartsWhenAllPreReady ==
    (room.registered /\ ~room.started /\ ConnectedSeats(room) # {}) =>
        \E id \in ConnectedSeats(room) : ~Truthy(room.preStartReadyMap, id)

\* A preReady message to a started room: the handler and its last calls leave
\* the room and the reveals as they are and send nothing.
LatePreReadyIgnored ==
    (room.registered /\ room.started) =>
        \A c \in 1..MaxConn, ready \in BOOLEAN, deck \in Decks :
            lastCalls(revealCall(preReady(Begin, c, ready)), deck) = Begin

\* A step that deals to a room that had not started: the first round, dealt to
\* the connected seats, all of them pre-ready before the step but for the one
\* the message came from.
FirstDeal ==
    (room.registered /\ ~room.started /\ room'.registered
        /\ (room'.started \/ room'.round # room.round \/ room'.dealt # room.dealt)) =>
        /\ room.round = 0 /\ room'.round = 1 /\ room'.started
        /\ ConnectedSeats(room') # {}
        /\ DOMAIN room'.dealt = ConnectedSeats(room')
        /\ \A id \in DOMAIN room'.dealt :
              /\ Len(room'.dealt[id]) = 9
              /\ room'.preStartReadyMap[id] = FALSE
        /\ room'.submissions = <<>>
        /\ \E c \in 1..MaxConn :
              \A id \in ConnectedSeats(room') \ {c} : Truthy(room.preStartReadyMap, id)

\* C19: a room that has not started is dealt to only when every connected seat
\* has its pre-ready flag set, and as soon as that is so: one deal, the round
\* goes from 0 to 1, the flags of the dealt seats are reset and there are no
\* submissions; a preReady message to a started room changes nothing.
C19_PreReadyDeal ==
    /\ [](StartsWhenAllPreReady /\ LatePreReadyIgnored)
    /\ [][FirstDeal]_vars

\* the first round dealt to two seats
C19_Witness ==
    /\ room.registered /\ room.started
    /\ room.round = 1
    /\ Cardinality(DOMAIN room.dealt) = 2
    /\ ConnectedSeats(room) = DOMAIN room.dealt
    /\ \A id \in DOMAIN room.dealt : room.preStartReadyMap[id] = FALSE
    /\ room.submissions = <<>>


(***************************************************************************)
(* Properties of the room specification Spec: submissions.                 *)
(***************************************************************************)
DealtTo(c) == IF Has(room.dealt, c) THEN room.dealt[c] ELSE <<>>

\* The submit messages connection c may send that fail validation.
Rejected(c) == {p \in Payloads(room, c) : ~validateSubmission(DealtTo(c), p).ok}

Reasons(c) == {validateSubmission(DealtTo(c), p).msg : p \in Rejected(c)}

\* C20: a submit that fails validation leaves the room as it is (no submission
\* stored, no ready broadcast, no reveal, no next round); the handler sends one
\* error, to the sender.
C20_RejectedSubmitChangesNothing ==
    room.registered =>
        \A c \in DOMAIN room.clients : \A p \in Rejected(c), deck \in Decks :
            lastCalls(revealCall(submit(Begin, c, p)), deck)
                = [Begin EXCEPT !.out = <<Msg(c, "error", 0, NoId)>>]

\* an open round in which a dealt seat that has not submitted may send a payload
\* failing for each reason, and another seat has submitted
C20_Witness ==
    /\ room.registered /\ room.started /\ ~room.revealed
    /\ \E c \in DOMAIN room.clients :
          /\ ~HasSub(room.submissions, c)
          /\ Reasons(c) = {"no dealer card", "section sizes", "empty slot",
                           "duplicate card", "not in hand"}
    /\ room.submissions # <<>>


(***************************************************************************)
(* Properties of the room specification Spec: the round.                   *)
(***************************************************************************)
Stored(id) == SubOf(room.submissions, id)

CardsOf(sub) == <<sub.dealerCard>> \o sub.head \o sub.mid \o sub.tail

\* The seats of the current round that are not connected.
OfflineSeats == DOMAIN room.dealt \ DOMAIN room.clients

\* C21: every submission stored in room.submissions, sent by a client or
\* synthesized on disconnect, is of a seat dealt into the current round, and its
\* dealer card, 2 head, 3 mid and 3 tail cards are nine different cards, the
\* nine dealt to that seat.
C21_StoredSubmissionIsDealtNine ==
    \A id \in IdsOf(room.submissions) :
        /\ Has(room.dealt, id)
        /\ Stored(id).dealerCard # NoCard
        /\ Len(Stored(id).head) = 2 /\ Len(Stored(id).mid) = 3 /\ Len(Stored(id).tail) = 3
        /\ Cardinality(SetOf(CardsOf(Stored(id)))) = 9
        /\ SetOf(CardsOf(Stored(id))) = SetOf(room.dealt[id])

\* an open round with the submission of a seat that went offline, and a connected
\* seat still to submit
C21_Witness ==
    /\ room.registered /\ room.started /\ ~room.revealed
    /\ \E id \in OfflineSeats : HasSub(room.submissions, id)
    /\ \E id \in DOMAIN room.dealt \cap DOMAIN room.clients : ~HasSub(room.submissions, id)


\* A step within one round of the room.
SameRound ==
    /\ room.registered /\ room'.registered
    /\ room.started /\ room'.round = room.round

\* C22: each seat submits once per round; once a seat's submission for the
\* current round is stored, no later step of that round replaces or alters it
\* (here: no step of the round before its reveal).
C22_AsStated ==
    [][(SameRound /\ ~room.revealed) =>
        \A id \in IdsOf(room.submissions) \cap IdsOf(room'.submissions) :
            SubOf(room'.submissions, id) = Stored(id)]_vars


\* Every seat dealt into the current round of R has a stored submission.
AllDealtSubmitted(R) == \A id \in DOMAIN R.dealt : HasSub(R.submissions, id)

\* A step that broadcasts a reveal.
RevealStep == room'.registered /\ Len(revealLog') > Len(revealLog)

\* C23: a round is revealed only where every seat dealt into it, offline seats
\* included, has a stored submission: so it is in every step that reveals and in
\* every state with revealed = true.
C23_RevealNeedsAllSubmissions ==
    /\ []((room.registered /\ room.revealed) => AllDealtSubmitted(room))
    /\ [][RevealStep =>
            /\ room'.revealed
            /\ DOMAIN room'.dealt # {}
            /\ AllDealtSubmitted(room')
            /\ revealLog'[Len(revealLog')].round = room'.round]_vars

\* a revealed round with two seats, one of them offline
C23_Witness ==
    /\ room.registered /\ room.revealed
    /\ Cardinality(DOMAIN room.dealt) = 2
    /\ OfflineSeats # {}
    /\ revealLog # <<>>


\* A step of an open round in which the last missing submission is stored.
LastSubmissionArrives ==
    /\ SameRound /\ ~room.revealed
    /\ room'.dealt = room.dealt
    /\ ~AllDealtSubmitted(room)
    /\ AllDealtSubmitted(room')

\* The connected participants of R that hold joker j among their dealt nine.
Holders(R, j) == {id \in DOMAIN R.dealt \cap DOMAIN R.clients : j \in SetOf(R.dealt[id])}

\* C24: when the last missing submission of a round arrives and a connected
\* participant holds a joker among its dealt nine, the room awaits the dealer pick
\* instead of revealing; the controller is the holder of the big joker (lowest id),
\* else the holder of the small joker.
C24_AsStated ==
    [][(LastSubmissionArrives /\ Holders(room', BJ) \cup Holders(room', SJ) # {}) =>
            /\ ~room'.revealed
            /\ revealLog' = revealLog
            /\ room'.dealerPick.round = room'.round
            /\ room'.dealerPick.controllerId =
                    IF Holders(room', BJ) # {} THEN SetMin(Holders(room', BJ))
                    ELSE SetMin(Holders(room', SJ))]_vars


(***************************************************************************)
(* Properties of the room specification Spec: the dealer pick.             *)
(***************************************************************************)
PickPending == room.registered /\ room.dealerPick # NoPick

\* The participants of the current round: the dealt seats, the connected ones
\* once the round is revealed.
Participants ==
    IF room.revealed THEN DOMAIN room.dealt \cap DOMAIN room.clients ELSE DOMAIN room.dealt

\* A dealerPickChoice of connection c with pick = {round, dealerId} is in order.
ValidPick(c, pickRound, dealerId) ==
    /\ PickPending
    /\ c = room.dealerPick.controllerId
    /\ pickRound = room.dealerPick.round
    /\ dealerId \in Participants

\* A handler's run from Begin to its end, with the shuffled deck.
Handled(w, deck) == lastCalls(revealCall(w), deck)

\* C25: a dealerPickChoice from a connection that is not the controller, with a
\* round other than the pending pick's, naming an id that is no participant of
\* the round, or with no pick pending, leaves the room as it is (the pick stays
\* pending, no reveal, the totals unchanged); one error goes to the sender.
C25_BadPickChangesNothing ==
    room.registered =>
        \A c \in DOMAIN room.clients, pickRound \in 0..MaxRound, dealerId \in 0..MaxConn :
            ~ValidPick(c, pickRound, dealerId) =>
                \A deck \in Decks :
                    Handled(dealerPickChoice(Begin, c, pickRound, dealerId), deck)
                        = [Begin EXCEPT !.out = <<Msg(c, "error", 0, NoId)>>]

\* a pick is pending and a connection other than the controller is in the room
C25_Witness ==
    /\ PickPending
    /\ ~room.revealed
    /\ DOMAIN room.clients \ {room.dealerPick.controllerId} # {}
    /\ room.dealerPick.controllerId \in DOMAIN room.clients


\* The handler run of a dealerPickChoice up to and including its reveal.
Picked(c, pickRound, dealerId) == revealCall(dealerPickChoice(Begin, c, pickRound, dealerId))

\* The run w ended the pick and revealed the round with dealerId as dealer.
RevealedWith(w, dealerId) ==
    /\ w.room.revealed
    /\ w.room.dealerPick = NoPick
    /\ w.log = Append(revealLog, [round |-> room.round, dealerId |-> dealerId])
    /\ \A to \in DOMAIN room.clients :
          /\ Msg(to, "dealerPickFinal", room.round, dealerId) \in SetOf(w.out)
          /\ Msg(to, "reveal", room.round, dealerId) \in SetOf(w.out)

\* C26: a dealerPickChoice from the controller with the pending round that names
\* a participant of the round ends the pick: dealerPickFinal goes to every
\* client, the round is revealed in the same step with that participant as
\* dealer, and dealerPick is null.
C26_ValidPickReveals ==
    \A c \in 1..MaxConn, pickRound \in 0..MaxRound, dealerId \in 0..MaxConn :
        ValidPick(c, pickRound, dealerId) =>
            RevealedWith(Picked(c, pickRound, dealerId), dealerId)

\* a revealed round whose dealer is the seat the controller named, not the seat
\* the dealer-selection cards give
C26_Witness ==
    /\ room.registered /\ room.revealed
    /\ room.dealerPick = NoPick
    /\ revealLog # <<>>
    /\ revealLog[Len(revealLog)].round = room.round
    /\ revealLog[Len(revealLog)].dealerId \in DOMAIN room.dealt
    /\ AllDealtSubmitted(room)
    /\ revealLog[Len(revealLog)].dealerId # computeDealerIdFromSubmissions(room.submissions)


(***************************************************************************)
(* Properties of the room specification Spec: the next round.              *)
(***************************************************************************)
\* The participants of the revealed round that are connected.
ConnectedParticipants == DOMAIN room.dealt \cap DOMAIN room.clients

\* No handler leaves a revealed round with every connected participant next-ready.
DealsWhenAllNextReady ==
    (room.registered /\ room.revealed /\ ConnectedParticipants # {}) =>
        \E id \in ConnectedParticipants : ~Truthy(room.nextReadyMap, id)

\* A step that deals a further round to a started room: the round was revealed
\* and its participants connected after the step were next-ready before it, but
\* for the one the message came from; the offline seats are gone with their
\* state, and the connected seats hold the new hands.
NextDeal ==
    (room.registered /\ room.started /\ room'.registered /\ room'.round # room.round) =>
        /\ room.revealed /\ ~room'.revealed
        /\ room'.round = room.round + 1
        /\ \E c \in 1..MaxConn :
              \A id \in (DOMAIN room.dealt \cap DOMAIN room'.clients) \ {c} :
                  Truthy(room.nextReadyMap, id)
        /\ SetOf(room'.seatOrder) = DOMAIN room'.clients
        /\ DOMAIN room'.disconnectedSeatNames = {}
        /\ DOMAIN room'.cumulative \subseteq DOMAIN room'.clients
        /\ DOMAIN room'.preStartReadyMap \subseteq DOMAIN room'.clients
        /\ room'.nextReadyMap = <<>>
        /\ room'.submissions = <<>>
        /\ DOMAIN room'.dealt = DOMAIN room'.clients
        /\ \A id \in DOMAIN room'.dealt : Len(room'.dealt[id]) = 9

\* C27: after a reveal the next round is dealt as soon as every connected
\* participant of the revealed round has flagged next-ready, offline seats not
\* counting; that step removes the offline seats from seatOrder with their
\* per-round state, adds one to the round, discards the hands and submissions
\* and deals to exactly the connected seats.
C27_NextRound ==
    /\ []DealsWhenAllNextReady
    /\ [][NextDeal]_vars

\* round 2, dealt to the connected seats after a participant of round 1 left
C27_Witness ==
    /\ room.registered /\ room.round = 2 /\ ~room.revealed
    /\ room.submissions = <<>>
    /\ DOMAIN room.dealt = DOMAIN room.clients
    /\ \E c \in 1..MaxConn : conn[c] = "closed" /\ c \notin SetOf(room.seatOrder)
    /\ Cardinality(DOMAIN room.dealt) = 2


(***************************************************************************)
(* Properties of the room specification Spec: disconnects.                 *)
(***************************************************************************)
\* The round is active for seat c: dealt, and not revealed yet.
ActiveFor(c) == room.registered /\ room.started /\ ~room.revealed /\ Has(room.dealt, c)

\* The pass-through arrangement of a dealt hand.
PassThrough(d) ==
    [dealerCard |-> d[1], head |-> <<d[2], d[3]>>, mid |-> <<d[4], d[5], d[6]>>,
     tail |-> <<d[7], d[8], d[9]>>, report |-> "none"]

\* After the run w seat c is still seated with its hand and its submission, the
\* stored one or else the pass-through one.
StaysSeated(w, c) ==
    /\ c \in SetOf(w.room.seatOrder)
    /\ c \notin DOMAIN w.room.clients
    /\ Has(w.room.dealt, c) /\ w.room.dealt[c] = room.dealt[c]
    /\ HasSub(w.room.submissions, c)
    /\ SubOf(w.room.submissions, c) =
            IF HasSub(room.submissions, c) THEN Stored(c) ELSE PassThrough(room.dealt[c])

\* C28: a dealt seat that disconnects after the deal and before the reveal stays
\* in seatOrder and keeps its hand; without a stored submission it gets dealer
\* card = 1st dealt card, head = 2nd-3rd, mid = 4th-6th, tail = 7th-9th, report
\* 'none'; a submission it had stored stays as it is.  (When it was the last
\* client the room is removed after that.)
C28_MidRoundDisconnect ==
    \A c \in DOMAIN room.clients :
        ActiveFor(c) =>
            /\ StaysSeated(revealCall(close(Begin, c)), c)
            /\ DOMAIN room.clients # {c} =>
                  \A deck \in Decks : StaysSeated(Handled(close(Begin, c), deck), c)

\* an open round with an offline seat that holds the pass-through submission of
\* its hand, and a connected seat that has not submitted
C28_Witness ==
    /\ room.registered /\ room.started /\ ~room.revealed
    /\ \E id \in OfflineSeats :
          /\ id \in SetOf(room.seatOrder)
          /\ HasSub(room.submissions, id)
          /\ Stored(id) = PassThrough(room.dealt[id])
    /\ \E id \in ConnectedParticipants : ~HasSub(room.submissions, id)
    /\ \E c \in 1..MaxConn : conn[c] = "closed"


\* An open round whose reveal the model has room for.
RoundOpen == room.registered /\ room.started /\ ~room.revealed /\ Len(revealLog) < MaxReveals

\* C29: a dealt round always completes despite disconnects: if the participants
\* that stay connected submit and a controller that stays connected picks, the
\* round is revealed in the end, whoever else disconnects (when the last client
\* leaves, the room is removed instead).
C29_RoundCompletes == RoundOpen ~> (room.revealed \/ ~room.registered)

\* a revealed round with a connected participant and an offline one that holds
\* the pass-through submission of its hand
C29_Witness ==
    /\ room.registered /\ room.revealed
    /\ ConnectedParticipants # {}
    /\ \E id \in OfflineSeats :
          HasSub(room.submissions, id) /\ Stored(id) = PassThrough(room.dealt[id])


\* The per-seat state of seat id in room R: its hand, its submission and its
\* id-keyed cumulative score, each with whether it is there.
SeatState(R, id) ==
    [dealt |-> IF Has(R.dealt, id) THEN <<R.dealt[id]>> ELSE <<>>,
     sub |-> IF HasSub(R.submissions, id) THEN <<SubOf(R.submissions, id)>> ELSE <<>>,
     cumulative |-> IF Has(R.cumulative, id) THEN <<R.cumulative[id]>> ELSE <<>>]

\* Seat c is gone from room R: no place in seatOrder, no hand, no submission, no
\* ready flag, no id-keyed cumulative score.
SeatRemoved(R, c) ==
    /\ c \notin SetOf(R.seatOrder)
    /\ c \notin DOMAIN R.clients
    /\ SeatState(R, c) = [dealt |-> <<>>, sub |-> <<>>, cumulative |-> <<>>]
    /\ ~Has(R.nextReadyMap, c) /\ ~Has(R.preStartReadyMap, c)

\* Every seat other than c has in R the hand, submission and cumulative score it
\* has in the room now, and the other seats keep their order.
OthersKept(R, c) ==
    /\ R.seatOrder = SelectSeq(room.seatOrder, LAMBDA id : id # c)
    /\ \A id \in (1..MaxConn) \ {c} : SeatState(R, id) = SeatState(room, id)

\* The last calls of the handler dealt a round to R.
DealtAfter(w, R) == R.registered /\ R.round = w.room.round + 1 /\ R.started /\ ~R.revealed

\* The close of connection c, outside an active round for it, has run to w and
\* then makes its last calls on any deck.
ClosedOutsideRound(w, c) ==
    /\ SeatRemoved(w.room, c)
    /\ OthersKept(w.room, c)
    /\ ~w.reveal
    /\ \A deck \in Decks :
          \E f \in {lastCalls(w, deck)} :
              /\ SeatRemoved(f.room, c)
              /\ \/ f.room = w.room
                 \/ DealtAfter(w, f.room)
                 \/ ~f.room.registered /\ DOMAIN w.room.clients = {}

\* C30 (amended): a seat that disconnects while no round is active for it is
\* removed from seatOrder at once and its hand, submission, ready flags and
\* id-keyed cumulative score are deleted, and every other seat's hand,
\* submission and cumulative score are unchanged by the removal; the handler
\* then leaves the room so, unless it deals the next round to the seats that
\* remain or, with no client left, removes the room.
C30_DisconnectOutsideRound ==
    \A c \in DOMAIN room.clients :
        (room.registered /\ ~ActiveFor(c)) => ClosedOutsideRound(close(Begin, c), c)

\* a connection has closed outside an active round while another seat holds a
\* hand, a submission and a cumulative score
C30_Witness ==
    /\ room.registered /\ room.started
    /\ \E c \in 1..MaxConn :
          /\ conn[c] = "closed"
          /\ c \notin SetOf(room.seatOrder)
          /\ ~Has(room.dealt, c)
    /\ \E id \in DOMAIN room.clients :
          Has(room.dealt, id) /\ HasSub(room.submissions, id) /\ Has(room.cumulative, id)

\* C30 as stated: the step of such a disconnect leaves every other seat's hand,
\* submission and cumulative score unchanged.
C30_AsStated ==
    [][\A c \in DOMAIN room.clients :
          (room.registered /\ ~ActiveFor(c) /\ conn[c] = "joined" /\ conn'[c] = "closed")
              => \A id \in (1..MaxConn) \ {c} : SeatState(room', id) = SeatState(room, id)]_vars


Names == {NameOf(c) : c \in 1..MaxConn}

\* The connections in R.clients under display name n.
Named(R, n) == {c \in DOMAIN R.clients : R.clients[c] = n}

\* The close of c ran to its end f: the score c had is kept under its name.
ScoreKept(f, c) ==
    /\ Has(f.room.cumulativeByName, room.clients[c])
    /\ f.room.cumulativeByName[room.clients[c]] = room.cumulative[c]

\* The join of c under name n ran to its end f: c starts with the score it has
\* by id when there is one, else with the score kept under n.
ScoreRestored(f, c, n) ==
    /\ Has(f.room.cumulative, c)
    /\ f.room.cumulative[c] =
            IF Has(room.cumulative, c) THEN room.cumulative[c]
            ELSE room.cumulativeByName[n]

ClosesKeepScore ==
    \A c \in DOMAIN room.clients :
        (room.registered /\ Has(room.cumulative, c) /\ DOMAIN room.clients # {c}) =>
            \A deck \in Decks : ScoreKept(Handled(close(Begin, c), deck), c)

JoinsRestoreScore ==
    \A c \in 1..MaxConn :
        (room.registered /\ conn[c] = "new" /\ Has(room.cumulativeByName, NameOf(c))) =>
            \A deck \in Decks :
                ScoreRestored(Handled(joinRoom(Begin, c, NameOf(c)), deck), c, NameOf(c))

\* While the room lasts and no connection under name n is in it, the score kept
\* under n stays as it is.
KeptScoreStays ==
    \A n \in Names :
        (/\ room.registered /\ room'.registered
         /\ Has(room.cumulativeByName, n)
         /\ Named(room, n) = {} /\ Named(room', n) = {})
            => /\ Has(room'.cumulativeByName, n)
               /\ room'.cumulativeByName[n] = room.cumulativeByName[n]

BadNextReady(c, round) ==
    \/ ~room.revealed
    \/ round # 0 /\ round # room.round
    \/ ~Has(room.dealt, c)

RunOn(R) == [Begin EXCEPT !.room = R, !.log = <<>>]

\* The rooms that one message of a connected client of R (preReady, submit,
\* dealerPickChoice, nextReady) leaves behind.
AfterMessage(R) ==
    UNION { {Handled(preReady(RunOn(R), c, TRUE), Deck54).room,
             Handled(nextReady(RunOn(R), c, R.round), Deck54).room}
            \cup {Handled(submit(RunOn(R), c, payload), Deck54).room :
                    payload \in Payloads(R, c)}
            \cup {Handled(dealerPickChoice(RunOn(R), c, R.round, dealerId), Deck54).room :
                    dealerId \in 1..MaxConn}
          : c \in DOMAIN R.clients }

\* R has a deal later than the room's that includes every client of the room.
NewDealFor(R) == R.round > room.round /\ DOMAIN room.clients \subseteq DOMAIN R.dealt

\* Some sequence of messages leads from a room of frontier to a new deal; seen
\* are the rooms already tried.
RECURSIVE CanDeal(_, _)
CanDealFrom(next, seen) == CanDeal(next, seen \cup next)

CanDeal(frontier, seen) ==
    IF \E R \in frontier : NewDealFor(R) THEN TRUE
    ELSE IF frontier = {} THEN FALSE
    ELSE CanDealFrom(UNION {AfterMessage(R) : R \in frontier} \ seen, seen)

\* C33 as stated: no stuck room: from every reachable state with a connected
\* client, some sequence of preReady, submit, dealerPickChoice and nextReady
\* messages of the connected clients leads to a new deal that includes them.
C33_AsStated ==
    (room.registered /\ DOMAIN room.clients # {}) => CanDeal({room}, {room})


\* The connections that were sent 'joined' and whose close has not been handled.
SentJoined == {c \in 1..MaxConn : conn[c] \in {"joined", "stray"}}

\* C34 as stated: joining is atomic with respect to the other events of the
\* room: after any interleaving of joins, closes and messages, every id in
\* room.clients is a connection whose close has not yet been handled, and
\* every connection that was sent 'joined' is a member of the room object
\* registered under its room id.
C34_AsStated ==
    /\ \A id \in DOMAIN room.clients : conn[id] = "joined"
    /\ \A c \in SentJoined : room.registered /\ Has(room.clients, c)


\* The display name of seat id: of its connection, or the one kept for a seat
\* that left during the round.
SeatName(id) ==
    IF Has(room.clients, id) THEN room.clients[id]
    ELSE IF Has(room.disconnectedSeatNames, id) THEN room.disconnectedSeatNames[id]
    ELSE ""

\* The score a join under name n starts with (none kept: 0).
NameScore(n) == IF Has(room.cumulativeByName, n) THEN room.cumulativeByName[n] ELSE 0

\* C35 as stated: after a round is settled, the name-keyed cumulative score of
\* every participant of that round, a participant that went offline during the
\* round included, equals its id-keyed cumulative score.
C35_AsStated ==
    (room.registered /\ room.revealed) =>
        \A id \in DOMAIN room.dealt :
            /\ Has(room.cumulative, id)
            /\ NameScore(SeatName(id)) = room.cumulative[id]


\* C36 as stated: at the end of every message and close handler, if
\* room.dealerPick is non-null then the room is started and not revealed,
\* dealerPick.round equals room.round, every current-round participant has a
\* stored submission, and the controller is a connected client.
C36_AsStated ==
    (room.registered /\ room.dealerPick # NoPick) =>
        /\ room.started /\ ~room.revealed
        /\ room.dealerPick.round = room.round
        /\ \A id \in DOMAIN room.dealt : HasSub(room.submissions, id)
        /\ Has(room.clients, room.dealerPick.controllerId)


\* The controller that the stored submissions of the round of R designate.
Designated(R) == findDealerPickController(R.submissions, Sorted(DOMAIN R.dealt)).controllerId

\* A handler ends with the submissions of the open round complete and their
\* designated controller offline: the controller was offline when the last
\* submission came, or it has just disconnected.
ControllerGone ==
    /\ room.registered /\ room.started /\ ~room.revealed
    /\ room'.registered /\ room'.round = room.round
    /\ AllDealtSubmitted(room')
    /\ Designated(room') # NoId
    /\ ~Has(room'.clients, Designated(room'))

\* The round is revealed in this step, without pick, with the holder of the
\* highest dealer-selection card as dealer.
RevealedUnpicked ==
    /\ room'.revealed
    /\ room'.dealerPick = NoPick
    /\ revealLog' = Append(revealLog,
                           [round |-> room.round,
                            dealerId |-> computeDealerIdFromSubmissions(room'.submissions)])

\* In an open round no pick is pending with an offline controller.
NeverWaitsOffline ==
    (PickPending /\ ~room.revealed) => Has(room.clients, room.dealerPick.controllerId)

\* C37: if the designated controller is offline when the submissions become
\* complete, or disconnects while its pick is pending, the pick is abandoned
\* and the round is revealed in that same step with the automatically
\* determined dealer (highest dealer-selection card); the room never waits
\* for a pick from an offline controller.
C37_OfflineControllerReveals ==
    /\ []NeverWaitsOffline
    /\ [][ControllerGone => RevealedUnpicked]_vars

\* a round revealed without pick although an offline seat has the big joker as
\* its dealer card, with a connected participant to see it
C37_Witness ==
    /\ room.registered /\ room.revealed /\ room.dealerPick = NoPick
    /\ ConnectedParticipants # {}
    /\ \E id \in OfflineSeats :
          HasSub(room.submissions, id) /\ Stored(id).dealerCard = BJ
    /\ revealLog # <<>>
    /\ revealLog[Len(revealLog)].round = room.round


\* id counts as fouled in the settlement: its report does not validate, and its
\* arrangement is a foul or it claimed a report (an unproven claim is a foul).
Wulong(id) == ~ValidReport(id) /\ (Fouled(id) \/ CodeOf(id) # "none")

\* The three win-values of the evaluations e of an arrangement.
WinValues(e) ==
    [head |-> IF e.head.name = "pair" THEN e.head.t[1] ELSE 1,
     mid |-> IF e.mid.name = "straightFlush" THEN 10
             ELSE IF e.mid.name = "trips" THEN 6 ELSE 1,
     tail |-> IF e.tail.name = "straightFlush" THEN 5
              ELSE IF e.tail.name = "trips" THEN 3 ELSE 1]

SumOf(per) == per.head + per.mid + per.tail

\* C38: when the dealer fouled or made a report claim that failed validation,
\* every non-dealer who neither fouled (an unproven claim of its own counts as
\* a foul) nor validly reported wins all three sections with its own
\* win-values, however the cards compare, while a non-dealer who fouled too
\* still loses all three sections at the dealer's win-values.
C38_DealerFoulPaysAll ==
    (DealerSubmitted /\ Wulong(out.dealerId)) =>
        \A id \in NonDealers :
            /\ (~Wulong(id) /\ ~ValidReport(id)) =>
                    /\ PerOf(id) = WinValues(EvalOf(id))
                    /\ TotalOf(id) = SumOf(WinValues(EvalOf(id)))
            /\ Wulong(id) =>
                    /\ PerOf(id) = [head |-> -WinValues(EvalOf(out.dealerId)).head,
                                    mid |-> -WinValues(EvalOf(out.dealerId)).mid,
                                    tail |-> -WinValues(EvalOf(out.dealerId)).tail]
                    /\ TotalOf(id) = -SumOf(WinValues(EvalOf(out.dealerId)))

\* three players: a dealer who counts as fouled, a plain non-dealer who wins
\* although one of its sections does not beat the dealer's, and a non-dealer
\* who counts as fouled too and loses
C38_Witness ==
    /\ DealerSubmitted /\ Len(subs) = 3
    /\ Wulong(out.dealerId)
    /\ \E a, b \in NonDealers :
            /\ Plain(a) /\ TotalOf(a) > 0
            /\ \E k \in {"head", "mid", "tail"} :
                    compareEval(EvalOf(a)[k], EvalOf(out.dealerId)[k]) <= 0
            /\ Wulong(b) /\ TotalOf(b) < 0


\* C39 as stated: computeRoundResult never returns a settlement whose dealerId
\* has no entry in results: a dealerOverride that is not the id of one of the
\* submissions yields an error, whatever the players' reports and fouls.
C39_AsStated ==
    /\ Returned => out.dealerId \in DOMAIN out.results
    /\ (out # NoOut /\ override # NoId /\ override \notin IdsOf(subs)) => out.err # ""


\* The call has responded and the GET of its last pass of the loop got 404.
NewFile ==
    /\ result.pc = "done"
    /\ result.gets # <<>>
    /\ result.gets[Len(result.gets)].status = 404

\* C40 as stated: the save endpoint creates the record when none exists yet: if
\* the GET for the current file returns 404, the worker issues the PUT without
\* a sha and answers 200 {ok:true} when the PUT succeeds; it does not end the
\* request with an error without attempting the write.
C40_AsStated ==
    NewFile =>
        /\ result.puts # <<>>
        /\ \E p \in {result.puts[Len(result.puts)]} :
              /\ p.attempt = result.gets[Len(result.gets)].attempt
              /\ p.sha = NoSha
              /\ p.status \in 200..299 => result.response = Response(200, "ok")

=============================================================================
